---- MODULE Spec2Model ----
(***************************************************************************)
(* Jotaku: local-first note store and its bidirectional sync engine.       *)
(*                                                                         *)
(* Two client devices of one user (internal/ui, internal/api,              *)
(* internal/db/notes.go) talk to one server (internal/server,              *)
(* internal/db/server.go).  Each device runs the Bubble Tea update loop of *)
(* internal/ui/model.go: handlers run one at a time, the commands they     *)
(* return (doSync, saveCurrentNote, ...) run concurrently and post their   *)
(* result back as a message.                                               *)
(***************************************************************************)
EXTENDS Integers, Sequences, FiniteSets, TLC

(***************************************************************************)
(* Bounds of the model.                                                    *)
(***************************************************************************)
\* things the environment does in a run: user commands, ticks, ping results,
\* clock advances and injected faults.  Everything else (the steps of the
\* commands they start) is bounded by them.
MaxEvents == 3
\* the same when one device runs alone
MaxSoloEvents == 4
\* the same once both devices hold the same synced note
MaxSharedEvents == 3
\* the same when one device runs alone and the two halves of an upload
\* (the request, the marking of the row) are steps of their own
MaxRaceEvents == 3
\* calls of LocalStore and clock advances in a run that calls the store
\* directly
MaxStoreEvents == 3
\* user commands, ping results, clock advances and faults in a run whose
\* periodic ticks never stop
MaxLiveEvents == 2
\* requests and clock advances in a run that calls the server directly
MaxServerCalls == 3
MaxEditorEvents == 3
MaxVersionEvents == 3
MaxDiskEvents == 4
MaxAuthEvents == 4
MaxRegistrations == 3
\* the window of the rate limiter (time.Minute), in ticks of the clock
Window == 2
\* doSync commands of one device that run at the same time
MaxPasses == 2
\* the wall clock stops advancing in this Unix second
MaxSec == 2
\* sub-second ticks per second: local rows keep sub-second time.Time values,
\* the wire format and the checkpoint are whole Unix seconds
SubSec == 2
\* periodic sync threshold in ticks (100 ticks of 3 s in model.go:326),
\* scaled down so that the periodic trigger is reached
SyncTicks == 1

Dev == {1, 2}
\* the user both devices are logged in as
UserOf(d) == 1
\* the title of the n-th note created in a run: titles tell the notes apart
Titles == <<"A", "B", "C", "D", "E", "F", "G", "H">>
\* ciphertext envelopes written by the client; "e0" is the envelope createNote
\* writes for the empty body
Contents == {"e0", "e1"}
\* the empty server id ("" in the code)
NoID == 0

\* registerHandler: "password must be at least 8 characters"
MinPasswordLen == 8

\* NewAuthRateLimiter: NewRateLimiter(5, time.Minute)
AuthLimit == 5

VARIABLES
    now,        \* time.Now(), in ticks
    notes,      \* notes[d]: the notes table of device d, in rowid order
    nextID,     \* nextID[d]: next rowid of device d's notes table
    remote,     \* the server's notes table: a set of rows, id is the primary key
    nextUUID,   \* number of UUIDs minted so far
    lastSync,   \* lastSync[d]: config.Server.LastSync of device d (Unix seconds)
    syncing,    \* syncing[d]: Model.syncing
    tickCount,  \* tickCount[d]: Model.tickCount
    online,     \* online[d]: Model.online
    passes,     \* passes[d]: the doSync commands of device d that are running
    msgs,       \* msgs[d]: messages posted to device d's update loop, oldest first
    events,     \* environment events so far
    budget,     \* environment events the run may hold
    created,    \* notes created so far
    lost,       \* titles of the never-synced notes whose upsert the server
                \* applied while the client saw a transport error (history)
    reply,      \* the server's answer to the last request made to it directly
                \* (history): the user of the token, the call, the id asked
                \* for and the rows returned
    editor,     \* editor[d]: the fields of device d's Model that the editor
                \* uses: currentNote, currentReadOnly, mode, the textarea's
                \* value, dirty, and the number of nonces drawn so far
    versions,   \* versions[d]: the note_versions table of device d, in rowid order
    users,      \* the server's users table: a set of rows, id is the primary
                \* key and username is UNIQUE
    regs,       \* regs[r]: the registerHandler call r: its username, how far
                \* it is and the status it answered
    requests,   \* RateLimiter.requests: a map from client key to the count
                \* and the end of the key's window
    admitted,   \* admitted[ip]: the times at which Allow(ip) returned true
                \* (history)
    auth,       \* auth[d]: token, device d's Client holds a token; valid, the
                \* server accepts it; refused, a request of the device was
                \* answered 401 since its last login (history)
    quiet       \* quiet[d]: how far device d is through two passes in a row
                \* with no change in between (history): "first" while a pass
                \* runs alone, "done" once its result was handled as a
                \* success, "second" while the next pass runs alone, "no"
                \* when a pass overlapped, failed or a store was changed

vars == <<now, notes, nextID, remote, nextUUID, lastSync, syncing, tickCount,
          online, passes, msgs, events, budget, created, lost, quiet, reply, editor, versions, auth, users, regs, requests, admitted>>

(***************************************************************************)
(* Time conversions.                                                       *)
(***************************************************************************)
\* time.Time.Unix(): whole seconds, the sub-second part is dropped
Unix(t) == t \div SubSec
\* time.Unix(s, 0)
TimeUnix(s) == s * SubSec
\* time.Time.After
After(a, b) == a > b

(***************************************************************************)
(* LocalStore: the client's notes table (internal/db/notes.go).  A table   *)
(* is a sequence of rows in rowid order.                                   *)
(***************************************************************************)
Null == [id |-> 0]

Row(id, title, content, tags, createdAt, updatedAt, serverID, status, deleted) ==
    [id |-> id, title |-> title, content |-> content, tags |-> tags,
     createdAt |-> createdAt, updatedAt |-> updatedAt, serverID |-> serverID,
     syncStatus |-> status, deleted |-> deleted, password |-> ""]

\* CURRENT_TIMESTAMP of SQLite: the current time in whole seconds
CurrentTimestamp(t) == TimeUnix(Unix(t))

\* INSERT ... VALUES (?, ?, ?, ?, ?, ?, 'pending', 0); server_id stays NULL
CreateNoteInFolder(db, id, title, content, tags, t) ==
    Append(db, Row(id, title, content, tags, t, t, NoID, "pending", FALSE))

\* DB.CreateNote: the same INSERT without parent_folder_id
DBCreateNote(db, id, title, content, tags, t) ==
    Append(db, Row(id, title, content, tags, t, t, NoID, "pending", FALSE))

\* UPDATE notes SET title, content, tags, updated_at, sync_status = 'pending' WHERE id = ?
UpdateNote(db, id, title, content, tags, t) ==
    [k \in 1..Len(db) |->
        IF db[k].id = id
        THEN [db[k] EXCEPT !.title = title, !.content = content, !.tags = tags,
                           !.updatedAt = t, !.syncStatus = "pending"]
        ELSE db[k]]

\* variant of DeleteNote that removes the row instead of marking it
DeleteNoteRemoved(db, id, t) == SelectSeq(db, LAMBDA r : r.id # id)

\* UPDATE notes SET deleted = 1, sync_status = 'pending', updated_at = ? WHERE id = ?
DeleteNote(db, id, t) ==
    [k \in 1..Len(db) |->
        IF db[k].id = id
        THEN [db[k] EXCEPT !.deleted = TRUE, !.syncStatus = "pending", !.updatedAt = t]
        ELSE db[k]]

\* variant of RestoreNoteVersion whose UPDATE does not set sync_status
RestoreNoteVersionKeepsStatus(db, id, title, content, tags, t) ==
    [k \in 1..Len(db) |->
        IF db[k].id = id
        THEN [db[k] EXCEPT !.title = title, !.content = content, !.tags = tags,
                           !.updatedAt = CurrentTimestamp(t)]
        ELSE db[k]]

\* UPDATE notes SET title, content, tags (of the version), updated_at =
\* CURRENT_TIMESTAMP, sync_status = 'pending' WHERE id = ?
RestoreNoteVersion(db, id, title, content, tags, t) ==
    [k \in 1..Len(db) |->
        IF db[k].id = id
        THEN [db[k] EXCEPT !.title = title, !.content = content, !.tags = tags,
                           !.updatedAt = CurrentTimestamp(t),
                           !.syncStatus = "pending"]
        ELSE db[k]]

\* UPDATE notes SET password = ?, updated_at = CURRENT_TIMESTAMP WHERE id = ?
SetNotePassword(db, id, password, t) ==
    [k \in 1..Len(db) |->
        IF db[k].id = id
        THEN [db[k] EXCEPT !.password = password, !.updatedAt = CurrentTimestamp(t)]
        ELSE db[k]]

\* a []string of Go: nil, or the elements
GoTags(isNil, elems) == [isNil |-> isNil, elems |-> elems]

\* json.Marshal of a []string with at most one tag
Marshal(tags) ==
    IF tags.isNil THEN "null"
    ELSE IF tags.elems = <<>> THEN "[]"
    ELSE "[\"" \o tags.elems[1] \o "\"]"

\* json.Unmarshal of a tags column into a nil []string
Unmarshal(tagsJSON) ==
    IF tagsJSON = "null" THEN GoTags(TRUE, <<>>)
    ELSE IF tagsJSON = "[]" THEN GoTags(FALSE, <<>>)
    ELSE GoTags(FALSE, <<"x">>)

\* hex.EncodeToString(sha256.Sum256(content))[:12]: equal contents have
\* equal hashes; "e2" is a content whose cut hash is that of "e0"
HashOf(content) == IF content = "e1" THEN "h1" ELSE "h0"

\* the rows of note_versions with this note_id
VersionsOf(vs, noteID) == {k \in DOMAIN vs : vs[k].noteID = noteID}

\* SELECT COALESCE(MAX(version_num), 0) FROM note_versions WHERE note_id = ?
MaxVersion(vs, noteID) ==
    IF VersionsOf(vs, noteID) = {} THEN 0
    ELSE CHOOSE n \in {vs[k].versionNum : k \in VersionsOf(vs, noteID)} :
            \A k \in VersionsOf(vs, noteID) : vs[k].versionNum <= n

\* SELECT hash FROM note_versions WHERE note_id = ? ORDER BY version_num DESC
\* LIMIT 1: the hashes the query can return (none when the note has no version)
LastHashes(vs, noteID) ==
    {vs[k].hash : k \in {j \in VersionsOf(vs, noteID) :
                            vs[j].versionNum = MaxVersion(vs, noteID)}}

\* variant of SaveNoteVersion that compares the hash with every version of
\* the note, not with the last one
SaveNoteVersionOnce(vs, noteID, title, content, tags, t) ==
    IF \E k \in VersionsOf(vs, noteID) : vs[k].hash = HashOf(content)
    THEN vs
    ELSE Append(vs, [id |-> Len(vs) + 1, noteID |-> noteID, title |-> title,
                     content |-> content, tags |-> Marshal(tags),
                     hash |-> HashOf(content),
                     versionNum |-> MaxVersion(vs, noteID) + 1,
                     createdAt |-> CurrentTimestamp(t)])

\* variant of SaveNoteVersion that numbers a version by the count of all rows
SaveNoteVersionByCount(vs, noteID, title, content, tags, t) ==
    IF HashOf(content) \in LastHashes(vs, noteID)
    THEN vs
    ELSE Append(vs, [id |-> Len(vs) + 1, noteID |-> noteID, title |-> title,
                     content |-> content, tags |-> Marshal(tags),
                     hash |-> HashOf(content),
                     versionNum |-> Len(vs) + 1,
                     createdAt |-> CurrentTimestamp(t)])

\* SaveNoteVersion: nothing when the last version of the note has the hash
\* of the content, else INSERT with version_num MAX + 1 (rowids are
\* AUTOINCREMENT and no row is ever deleted: the next rowid is Len + 1)
SaveNoteVersion(vs, noteID, title, content, tags, t) ==
    IF HashOf(content) \in LastHashes(vs, noteID)
    THEN vs
    ELSE Append(vs, [id |-> Len(vs) + 1, noteID |-> noteID, title |-> title,
                     content |-> content, tags |-> Marshal(tags),
                     hash |-> HashOf(content),
                     versionNum |-> MaxVersion(vs, noteID) + 1,
                     createdAt |-> CurrentTimestamp(t)])

\* SELECT ... FROM note_versions WHERE id = ?  (no row: sql.ErrNoRows)
GetNoteVersion(vs, versionID) ==
    IF versionID \in DOMAIN vs THEN vs[versionID] ELSE Null

IsPending(r) == r.syncStatus = "pending"

\* variant of GetPendingNotes that selects every row
GetPendingNotesOrNot(db) == db

\* SELECT ... FROM notes WHERE sync_status = 'pending'
GetPendingNotes(db) == SelectSeq(db, IsPending)

\* UPDATE notes SET server_id = ?, sync_status = 'synced' WHERE id = ?
SetNoteSynced(db, id, serverID) ==
    [k \in 1..Len(db) |->
        IF db[k].id = id
        THEN [db[k] EXCEPT !.serverID = serverID, !.syncStatus = "synced"]
        ELSE db[k]]

\* variant of GetNoteByServerID that finds no row
GetNoteByServerIDNone(db, serverID) == Null

\* SELECT ... FROM notes WHERE server_id = ?  (QueryRow: the first match;
\* a NULL server_id matches nothing)
GetNoteByServerID(db, serverID) ==
    LET hits == {k \in 1..Len(db) : db[k].serverID = serverID /\ serverID # NoID}
    IN IF hits = {} THEN Null
       ELSE db[CHOOSE k \in hits : \A j \in hits : k <= j]

\* variant of UpsertFromServer that also replaces the row on a tie
\* (!existing.UpdatedAt.After(updatedAt) in place of updatedAt.After(...))
UpsertFromServerOnTie(db, newID, serverID, title, content, tags, createdAt, updatedAt) ==
    LET existing == GetNoteByServerID(db, serverID)
    IN IF existing # Null
       THEN IF ~After(existing.updatedAt, updatedAt)
            THEN [k \in 1..Len(db) |->
                    IF db[k].serverID = serverID
                    THEN [db[k] EXCEPT !.title = title, !.content = content,
                                       !.tags = tags, !.updatedAt = updatedAt,
                                       !.syncStatus = "synced"]
                    ELSE db[k]]
            ELSE db
       ELSE Append(db, Row(newID, title, content, tags, createdAt, updatedAt,
                           serverID, "synced", FALSE))

\* existing, _ := GetNoteByServerID; UPDATE ... WHERE server_id = ? when
\* updatedAt.After(existing.UpdatedAt), nothing when it is not, INSERT ...
\* 'synced', 0 when no row references the server id
UpsertFromServer(db, newID, serverID, title, content, tags, createdAt, updatedAt) ==
    LET existing == GetNoteByServerID(db, serverID)
    IN IF existing # Null
       THEN IF After(updatedAt, existing.updatedAt)
            THEN [k \in 1..Len(db) |->
                    IF db[k].serverID = serverID
                    THEN [db[k] EXCEPT !.title = title, !.content = content,
                                       !.tags = tags, !.updatedAt = updatedAt,
                                       !.syncStatus = "synced"]
                    ELSE db[k]]
            ELSE db
       ELSE Append(db, Row(newID, title, content, tags, createdAt, updatedAt,
                           serverID, "synced", FALSE))

IsNotRow(r, id) == ~(r.id = id /\ r.deleted)

\* DELETE FROM notes WHERE id = ? AND deleted = 1
PermanentlyDeleteSynced(db, id) ==
    SelectSeq(db, LAMBDA r : IsNotRow(r, id))

(***************************************************************************)
(* Cipher (internal/crypto, held by the Model as m.encryptor) and the      *)
(* editor of the client (internal/ui/model.go).  A stored content is a     *)
(* record: key is the key the envelope was made with (0 for a string that  *)
(* is no envelope), nonce its nonce and text the plaintext (for a string   *)
(* that is no envelope, the string itself).                                *)
(***************************************************************************)
\* a string that is no envelope, as a stored content
Text(x) == [key |-> 0, nonce |-> 0, text |-> x]

\* encrypt(plaintext, key): the envelope of x under key with the nonce drawn
Encrypt(key, nonce, x) == [key |-> key, nonce |-> nonce, text |-> x]

\* decrypt(envelope, key) does not fail: the authentication tag verifies,
\* which takes an envelope made with this key
DecryptOK(key, c) == c.key # 0 /\ c.key = key

\* decrypt(envelope, key) when it does not fail
Decrypt(key, c) == c.text

\* i18n.T().EncryptedDifferentKey in brackets
Placeholder == "[Encrypted with different key]"

\* the registerHandler calls of a behavior, none of them started
Registrations == 1..MaxRegistrations

NoRegistrations ==
    [r \in Registrations |-> [username |-> "", pc |-> "idle", status |-> 0]]

\* the keys getClientIP hands to Allow
ClientIPs == {"ip1", "ip2"}

\* make(map[string]*clientRequests)
NoRequests == [ip \in {} |-> [count |-> 0, windowEnd |-> 0]]


\* the Client after NewModel gave it the token of the configuration, while
\* the server accepts the token
SignedIn == [token |-> TRUE, valid |-> TRUE, refused |-> FALSE]

\* the Model before any note is loaded
NoEditor ==
    [encryptor |-> 1, currentNote |-> Null, currentReadOnly |-> FALSE,
     mode |-> "normal", textarea |-> "", dirty |-> FALSE, nonces |-> 0]

(***************************************************************************)
(* RemoteStore: the server's notes table (internal/db/server.go) and the   *)
(* HTTP handlers in front of it (internal/server/handlers.go).             *)
(***************************************************************************)
ServerNote(id, userID, title, content, tags, createdAt, updatedAt) ==
    [id |-> id, userID |-> userID, title |-> title, content |-> content,
     tags |-> tags, createdAt |-> createdAt, updatedAt |-> updatedAt]

\* variant of ServerUpsertNote whose DO UPDATE has no WHERE user_id = ?
ServerUpsertNoteOfAnyUser(rem, userID, id, title, content, tags, createdAt, updatedAt) ==
    IF \E r \in rem : r.id = id
    THEN {IF r.id = id
          THEN [r EXCEPT !.title = title, !.content = content, !.tags = tags,
                         !.updatedAt = updatedAt]
          ELSE r : r \in rem}
    ELSE rem \cup {ServerNote(id, userID, title, content, tags, createdAt, updatedAt)}

\* INSERT ... ON CONFLICT(id) DO UPDATE SET title, content, tags, updated_at
\* WHERE user_id = ?  (id is already minted when the request carried none)
ServerUpsertNote(rem, userID, id, title, content, tags, createdAt, updatedAt) ==
    IF \E r \in rem : r.id = id
    THEN {IF r.id = id /\ r.userID = userID
          THEN [r EXCEPT !.title = title, !.content = content, !.tags = tags,
                         !.updatedAt = updatedAt]
          ELSE r : r \in rem}
    ELSE rem \cup {ServerNote(id, userID, title, content, tags, createdAt, updatedAt)}

\* variant of ServerDeleteNote that deletes the row whoever owns it
ServerDeleteNoteOfAnyUser(rem, id, userID) == {r \in rem : r.id # id}

\* DELETE FROM notes WHERE id = ? AND user_id = ?
ServerDeleteNote(rem, id, userID) ==
    {r \in rem : ~(r.id = id /\ r.userID = userID)}

\* variant of GetNotesSince that also selects the rows stamped with the
\* since value itself
GetNotesSinceInclusive(rem, userID, since) ==
    {r \in rem : r.userID = userID /\ r.updatedAt >= since}

\* SELECT ... WHERE user_id = ? AND updated_at > ?  (the rows, unordered)
GetNotesSince(rem, userID, since) ==
    {r \in rem : r.userID = userID /\ r.updatedAt > since}

\* SELECT ... WHERE user_id = ?
ListNotesByUser(rem, userID) == {r \in rem : r.userID = userID}

\* SELECT ... WHERE id = ? AND user_id = ?  (no row: nil, and the handler
\* answers 404)
ServerGetNote(rem, id, userID) == {r \in rem : r.id = id /\ r.userID = userID}

\* variant of Status that answers 200 to a GET that found no row
StatusFoundOrNot(call, rows) ==
    CASE call = "none" -> 0
      [] call = "upsert" /\ rows = {} -> 400
      [] call = "delete" -> 204
      [] OTHER -> 200

\* the status line of the note handlers: getNoteHandler answers 404 when
\* GetNote found no row, upsertNoteHandler 400 to a request without a title,
\* deleteNoteHandler 204, and every other answer is 200
Status(call, rows) ==
    CASE call = "none" -> 0
      [] call = "get" /\ rows = {} -> 404
      [] call = "upsert" /\ rows = {} -> 400
      [] call = "delete" -> 204
      [] OTHER -> 200

\* the answer to a request: the user authMiddleware put in the context, the
\* call, the id of the request, the rows of the response and its status
Reply(userID, call, id, rows) ==
    [user |-> userID, call |-> call, id |-> id, rows |-> rows,
     status |-> Status(call, rows)]

NoReply == Reply(0, "none", NoID, {})

\* the time the handler stores: the request's Unix seconds when positive,
\* else the server's clock
HandlerTime(reqUnix, t) == IF reqUnix > 0 THEN TimeUnix(reqUnix) ELSE t

\* the since value GetNotesSince is called with: no since parameter when the
\* checkpoint is 0 (zero time.Time, before every row), else time.Unix(since, 0)
SinceTime(since) == IF since > 0 THEN TimeUnix(since) ELSE -1

\* NoteResponse of a stored row: timestamps as Unix seconds
NoteResponse(r) ==
    [id |-> r.id, title |-> r.title, content |-> r.content, tags |-> r.tags,
     createdAt |-> Unix(r.createdAt), updatedAt |-> Unix(r.updatedAt)]

(***************************************************************************)
(* SyncEngine: api.Sync (internal/api/sync.go) run by the doSync command   *)
(* (internal/ui/model.go).  A running command is a record: lastSync is the *)
(* checkpoint it was called with, pending its snapshot of the pending      *)
(* rows, i the next row of the snapshot; uploaded, deleted and errors are  *)
(* the SyncResult; ran counts the rows the loop body has run for and last  *)
(* names the outcome of the last row (history, read by the properties      *)
(* only); mark is the id in the response of UpsertNote while the row has   *)
(* not been marked synced yet.  A command reads its snapshot as soon as it *)
(* is started.                                                             *)
(***************************************************************************)
NewPass(ls, db) ==
    [lastSync |-> ls, pending |-> GetPendingNotes(db), i |-> 1,
     uploaded |-> 0, deleted |-> 0, errors |-> 0, ran |-> 0, last |-> "none",
     mark |-> NoID]

\* what a transport call can do: answer, fail before the server acted, or
\* fail (timeout, lost response) after the server acted
Outcomes == {"ok", "fail", "lost"}

\* variant of NeedsRemoteDelete that calls the server for every tombstone
NeedsRemoteDeleteAlways(note) == TRUE

\* `if note.ServerID != ""`: a tombstone that was uploaded before is deleted
\* on the server first, one that never was is removed locally only
NeedsRemoteDelete(note) == note.serverID # NoID

\* variant of NextRow that leaves the loop at the first failed row
NextRowUntilError(i, n, failed) == IF failed THEN n + 1 ELSE i + 1

\* the loop `for _, note := range pending`: every path through the body,
\* `continue` included, goes on with the next row
NextRow(i, n, failed) == i + 1

\* variant of AfterItemError that removes the tombstone all the same
AfterItemErrorRemoved(db, note) == PermanentlyDeleteSynced(db, note.id)

\* variant of AfterItemError that marks the failed row synced all the same
AfterItemErrorMarked(db, note) == SetNoteSynced(db, note.id, note.serverID)

\* the local table after a failed remote call: the row is not touched
AfterItemError(db, note) == db

\* variant of SyncSuccess that looks at the fetch only
SyncSuccessOfFetch(itemErrors, fetchErrors) == fetchErrors = 0

\* doSync: success is false as soon as result.Errors holds one error, be it
\* of an item or of the fetch
SyncSuccess(itemErrors, fetchErrors) == itemErrors + fetchErrors = 0

\* variant of CheckpointAfter that saves the checkpoint after every pass
CheckpointAfterAnyPass(ls, success, t) == Unix(t)

\* Update(syncResultMsg): LastSync = time.Now().Unix() on success only
CheckpointAfter(ls, success, t) == IF success THEN Unix(t) ELSE ls

\* syncResultMsg; fetch ("ok", "fail", or "none" when SyncNotes was not
\* called), itemErrors, ran and size are history of the pass that sent it
SyncResultMsg(success, uploaded, downloaded, fetch, itemErrors, ran, size) ==
    [success |-> success, uploaded |-> uploaded, downloaded |-> downloaded,
     fetch |-> fetch, itemErrors |-> itemErrors, ran |-> ran, size |-> size]

\* Sync returned (nil, err): GetPendingNotes failed
PendingFailedMsg == SyncResultMsg(FALSE, 0, 0, "none", 0, 0, 0)

RemoveAt(s, p) == [k \in 1..(Len(s) - 1) |-> IF k < p THEN s[k] ELSE s[k + 1]]

\* variant of NewestFirst that lists the oldest row first
RECURSIVE OldestFirst(_)
OldestFirst(S) ==
    IF S = {} THEN <<>>
    ELSE LET r == CHOOSE x \in S : \A y \in S :
                     \/ x.updatedAt < y.updatedAt
                     \/ x.updatedAt = y.updatedAt /\ x.id <= y.id
         IN <<r>> \o OldestFirst(S \ {r})

\* the rows of set S, newest first (ORDER BY updated_at DESC); rows with
\* equal updated_at are taken in the order the server minted their ids
RECURSIVE NewestFirst(_)
NewestFirst(S) ==
    IF S = {} THEN <<>>
    ELSE LET r == CHOOSE x \in S : \A y \in S :
                     \/ x.updatedAt > y.updatedAt
                     \/ x.updatedAt = y.updatedAt /\ x.id <= y.id
         IN <<r>> \o NewestFirst(S \ {r})

\* Client.SyncNotes(since) answered by syncNotesHandler: the rows GetNotesSince
\* selects for the user of the token, in the order of its ORDER BY
SyncNotes(rem, userID, since) ==
    NewestFirst(GetNotesSince(rem, userID, SinceTime(since)))

\* the download loop of Sync: UpsertFromServer for each fetched row in turn;
\* st is [db, next]: the table and the next free rowid
RECURSIVE ApplyDownloads(_, _)
ApplyDownloads(st, rows) ==
    IF rows = <<>> THEN st
    ELSE LET sn == NoteResponse(Head(rows))
             inserted == GetNoteByServerID(st.db, sn.id) = Null
             db2 == UpsertFromServer(st.db, st.next, sn.id, sn.title, sn.content,
                                     sn.tags, TimeUnix(sn.createdAt),
                                     TimeUnix(sn.updatedAt))
         IN ApplyDownloads([db |-> db2,
                            next |-> IF inserted THEN st.next + 1 ELSE st.next],
                           Tail(rows))

\* the devices in D have just been started, the others are not running
InitOf(D, b) ==
    /\ now = SubSec
    /\ notes = [d \in Dev |-> <<>>]
    /\ nextID = [d \in Dev |-> 1]
    /\ remote = {}
    /\ nextUUID = 0
    /\ lastSync = [d \in Dev |-> 0]
    /\ syncing = [d \in Dev |-> FALSE]
    /\ tickCount = [d \in Dev |-> 0]
    /\ online = [d \in Dev |-> FALSE]
    \* Model.Init batches doSync when the client is authenticated; syncing
    \* stays false
    /\ passes = [d \in Dev |-> IF d \in D THEN <<NewPass(0, <<>>)>> ELSE <<>>]
    /\ msgs = [d \in Dev |-> <<>>]
    /\ events = 0
    /\ budget = b
    /\ created = 0
    /\ lost = {}
    /\ quiet = [d \in Dev |-> IF d \in D THEN "first" ELSE "no"]
    /\ reply = NoReply
    /\ editor = [d \in Dev |-> NoEditor]
    /\ versions = [d \in Dev |-> <<>>]
    /\ auth = [d \in Dev |-> SignedIn]
    /\ users = {}
    /\ regs = NoRegistrations
    /\ requests = NoRequests
    /\ admitted = [ip \in ClientIPs |-> <<>>]

Init == InitOf(Dev, MaxEvents)

InitSolo == InitOf({1}, MaxSoloEvents)

\* the environment acts: n more events
Event(n) == events + n <= budget /\ events' = events + n /\ UNCHANGED budget

\* a handler returns m.doSync() and the command starts on table db: Sync
\* reads its snapshot, or GetPendingNotes fails and it returns at once
StartPass(d, db, ok) ==
    /\ IF ok
       THEN /\ Len(passes[d]) < MaxPasses
            /\ passes' = [passes EXCEPT ![d] = Append(@, NewPass(lastSync[d], db))]
            /\ UNCHANGED msgs
       ELSE /\ msgs' = [msgs EXCEPT ![d] = Append(@, PendingFailedMsg)]
            /\ UNCHANGED passes
    /\ quiet' = [quiet EXCEPT
                   ![d] = IF ~ok \/ passes[d] # <<>> \/ msgs[d] # <<>> THEN "no"
                          ELSE IF @ = "done" /\ db = notes[d] THEN "second"
                          ELSE "first"]

Cost(ok) == IF ok THEN 1 ELSE 2

\* the wall clock advances by a sub-second tick or by a whole second
AdvanceClock(dt) ==
    /\ Event(1)
    /\ Unix(now + dt) <= MaxSec
    /\ now' = now + dt
    /\ UNCHANGED <<notes, nextID, remote, nextUUID, lastSync, syncing, tickCount,
                   online, passes, msgs, created, lost, quiet, reply, editor, versions, auth, users, regs, requests, admitted>>

\* Update(onlineCheckMsg): the result of the Ping started by Init or by a tick
OnlineCheck(d, b) ==
    /\ Event(1)
    /\ online[d] # b
    /\ online' = [online EXCEPT ![d] = b]
    /\ UNCHANGED <<now, notes, nextID, remote, nextUUID, lastSync, syncing,
                   tickCount, passes, msgs, created, lost, quiet, reply, editor, versions, auth, users, regs, requests, admitted>>

\* Update(tickMsg): the periodic trigger, counted as n events.  The counter
\* is capped at SyncTicks while a tick cannot start a pass.
TickMsg(d, ok, n) ==
    /\ IF tickCount[d] + 1 >= SyncTicks /\ ~syncing[d]
       THEN /\ Event(n)
            /\ tickCount' = [tickCount EXCEPT ![d] = 0]
            /\ StartPass(d, notes[d], ok)
       ELSE /\ ok /\ Event(n)
            /\ tickCount[d] < SyncTicks
            /\ tickCount' = [tickCount EXCEPT ![d] = @ + 1]
            /\ UNCHANGED <<passes, msgs, quiet>>
    /\ UNCHANGED <<now, notes, nextID, remote, nextUUID, lastSync, syncing, online, created, lost,
                   reply, editor, versions, auth, users, regs, requests, admitted>>

\* a tick in a run of a bounded number of events
Tick(d, ok) == TickMsg(d, ok, Cost(ok))

\* handleNormalKeys(Sync): the sync key
SyncKey(d, ok) ==
    /\ Event(Cost(ok))
    /\ online[d] /\ ~syncing[d]
    /\ syncing' = [syncing EXCEPT ![d] = TRUE]
    /\ StartPass(d, notes[d], ok)
    /\ UNCHANGED <<now, notes, nextID, remote, nextUUID, lastSync, tickCount,
                   online, created, lost, reply, editor, versions, auth, users, regs, requests, admitted>>

\* Update(syncResultMsg)
HandleSyncResult(d) ==
    /\ msgs[d] # <<>>
    /\ syncing' = [syncing EXCEPT ![d] = FALSE]
    /\ lastSync' = [lastSync EXCEPT
                      ![d] = CheckpointAfter(@, Head(msgs[d]).success, now)]
    /\ msgs' = [msgs EXCEPT ![d] = Tail(@)]
    /\ quiet' = [quiet EXCEPT
                   ![d] = IF @ \in {"first", "second"} /\ Head(msgs[d]).success
                          THEN "done" ELSE "no"]
    /\ UNCHANGED <<now, notes, nextID, remote, nextUUID, tickCount, online,
                   passes, events, budget, created, lost, reply, editor, versions, auth, users, regs, requests, admitted>>

(***************************************************************************)
(* User commands of the client (internal/ui/model.go).                     *)
(***************************************************************************)
\* createNote: CreateNoteInFolder with the envelope of the empty body
CreateNote(d) ==
    /\ Event(1)
    /\ created < Len(Titles)
    /\ created' = created + 1
    /\ notes' = [notes EXCEPT
                   ![d] = CreateNoteInFolder(@, nextID[d], Titles[created + 1], "e0",
                                             "[]", now)]
    /\ nextID' = [nextID EXCEPT ![d] = @ + 1]
    /\ quiet' = [quiet EXCEPT ![d] = "no"]
    /\ UNCHANGED <<now, remote, nextUUID, lastSync, syncing, tickCount, online,
                   passes, msgs, lost, reply, editor, versions, auth, users, regs, requests, admitted>>

\* saveCurrentNote on the listed (not deleted) note k: UpdateNote with a
\* fresh envelope; the command returns syncStartedMsg, and
\* Update(syncStartedMsg) sets syncing and starts doSync
SaveCurrentNote(d, k, content, ok) ==
    /\ Event(Cost(ok))
    /\ k \in 1..Len(notes[d])
    /\ ~notes[d][k].deleted
    /\ content # notes[d][k].content
    /\ LET db == UpdateNote(notes[d], notes[d][k].id, notes[d][k].title, content,
                            notes[d][k].tags, now)
       IN /\ notes' = [notes EXCEPT ![d] = db]
          /\ syncing' = [syncing EXCEPT ![d] = TRUE]
          /\ StartPass(d, db, ok)
    /\ UNCHANGED <<now, nextID, remote, nextUUID, lastSync, tickCount, online, created, lost,
                   reply, editor, versions, auth, users, regs, requests, admitted>>

\* deleteCurrentNote on the listed (not deleted) note k: soft delete
DeleteCurrentNote(d, k) ==
    /\ Event(1)
    /\ k \in 1..Len(notes[d])
    /\ ~notes[d][k].deleted
    /\ notes' = [notes EXCEPT ![d] = DeleteNote(@, notes[d][k].id, now)]
    /\ quiet' = [quiet EXCEPT ![d] = "no"]
    /\ UNCHANGED <<now, nextID, remote, nextUUID, lastSync, syncing, tickCount,
                   online, passes, msgs, created, lost, reply, editor, versions, auth, users, regs, requests, admitted>>

(***************************************************************************)
(* Steps of a running doSync command p of device d.                        *)
(***************************************************************************)
\* a transport fault is an event of the environment
Fault(out) == IF out = "ok" THEN UNCHANGED <<events, budget>> ELSE Event(1)

\* a request of device d that changed the server's table is a remote
\* change for every other device
AfterRequest(d) ==
    quiet' = [e \in Dev |-> IF e # d /\ remote' # remote THEN "no" ELSE quiet[e]]

\* one turn of the upload loop, for a tombstoned row
UploadDeleted(d, p, out) ==
    /\ p \in 1..Len(passes[d])
    /\ passes[d][p].i <= Len(passes[d][p].pending)
    /\ LET ps == passes[d][p]
           note == ps.pending[ps.i]
           n == Len(ps.pending)
       IN /\ note.deleted
          /\ IF ~NeedsRemoteDelete(note)
             THEN /\ out = "ok"
                  /\ notes' = [notes EXCEPT ![d] = PermanentlyDeleteSynced(@, note.id)]
                  /\ passes' = [passes EXCEPT
                        ![d][p] = [ps EXCEPT !.i = NextRow(ps.i, n, FALSE),
                                             !.deleted = @ + 1, !.ran = @ + 1,
                                             !.last = "local-delete"]]
                  /\ UNCHANGED <<remote, events, budget>>
             ELSE /\ Fault(out)
                  /\ remote' = IF out = "fail" THEN remote
                               ELSE ServerDeleteNote(remote, note.serverID, UserOf(d))
                  /\ notes' = [notes EXCEPT
                        ![d] = IF out = "ok" THEN PermanentlyDeleteSynced(@, note.id)
                               ELSE AfterItemError(@, note)]
                  /\ passes' = [passes EXCEPT
                        ![d][p] = IF out = "ok"
                                  THEN [ps EXCEPT !.i = NextRow(ps.i, n, FALSE),
                                                  !.deleted = @ + 1, !.ran = @ + 1,
                                                  !.last = "delete-ok"]
                                  ELSE [ps EXCEPT !.i = NextRow(ps.i, n, TRUE),
                                                  !.errors = @ + 1, !.ran = @ + 1,
                                                  !.last = "delete-err"]]
    /\ AfterRequest(d)
    /\ UNCHANGED <<now, nextID, nextUUID, lastSync, syncing, tickCount, online, msgs, created, lost,
                   reply, editor, versions, auth, users, regs, requests, admitted>>

\* one turn of the upload loop, for a live row: POST /api/notes through
\* upsertNoteHandler, then SetNoteSynced with the id of the response
UploadLive(d, p, out) ==
    /\ p \in 1..Len(passes[d])
    /\ passes[d][p].i <= Len(passes[d][p].pending)
    /\ passes[d][p].mark = NoID
    /\ LET ps == passes[d][p]
           note == ps.pending[ps.i]
           n == Len(ps.pending)
           reqCreated == Unix(note.createdAt)
           reqUpdated == Unix(note.updatedAt)
           \* upsertNoteHandler answers 400 on an empty title
           accepted == note.title # ""
           reached == out # "fail" /\ accepted
           minted == reached /\ note.serverID = NoID
           id == IF note.serverID = NoID THEN nextUUID + 1 ELSE note.serverID
           answered == out = "ok" /\ accepted
       IN /\ ~note.deleted
          /\ Fault(out)
          /\ nextUUID' = IF minted THEN nextUUID + 1 ELSE nextUUID
          /\ lost' = IF minted /\ out = "lost" THEN lost \cup {note.title} ELSE lost
          /\ remote' = IF reached
                       THEN ServerUpsertNote(remote, UserOf(d), id, note.title,
                                note.content, note.tags, HandlerTime(reqCreated, now),
                                HandlerTime(reqUpdated, now))
                       ELSE remote
          /\ notes' = [notes EXCEPT
                ![d] = IF answered THEN SetNoteSynced(@, note.id, id)
                       ELSE AfterItemError(@, note)]
          /\ passes' = [passes EXCEPT
                ![d][p] = IF answered
                          THEN [ps EXCEPT !.i = NextRow(ps.i, n, FALSE),
                                          !.uploaded = @ + 1, !.ran = @ + 1,
                                          !.last = "upsert-ok"]
                          ELSE [ps EXCEPT !.i = NextRow(ps.i, n, TRUE),
                                          !.errors = @ + 1, !.ran = @ + 1,
                                          !.last = "upsert-err"]]
    /\ AfterRequest(d)
    /\ UNCHANGED <<now, nextID, lastSync, syncing, tickCount, online, msgs, created,
                   reply, editor, versions, auth, users, regs, requests, admitted>>

\* the first half of UploadLive: POST /api/notes through upsertNoteHandler;
\* on an error the turn ends, on an answer the command holds the response
SendUpsert(d, p, out) ==
    /\ p \in 1..Len(passes[d])
    /\ passes[d][p].i <= Len(passes[d][p].pending)
    /\ passes[d][p].mark = NoID
    /\ LET ps == passes[d][p]
           note == ps.pending[ps.i]
           n == Len(ps.pending)
           accepted == note.title # ""
           reached == out # "fail" /\ accepted
           minted == reached /\ note.serverID = NoID
           id == IF note.serverID = NoID THEN nextUUID + 1 ELSE note.serverID
           answered == out = "ok" /\ accepted
       IN /\ ~note.deleted
          /\ Fault(out)
          /\ nextUUID' = IF minted THEN nextUUID + 1 ELSE nextUUID
          /\ lost' = IF minted /\ out = "lost" THEN lost \cup {note.title} ELSE lost
          /\ remote' = IF reached
                       THEN ServerUpsertNote(remote, UserOf(d), id, note.title,
                                note.content, note.tags,
                                HandlerTime(Unix(note.createdAt), now),
                                HandlerTime(Unix(note.updatedAt), now))
                       ELSE remote
          /\ notes' = [notes EXCEPT
                ![d] = IF answered THEN @ ELSE AfterItemError(@, note)]
          /\ passes' = [passes EXCEPT
                ![d][p] = IF answered
                          THEN [ps EXCEPT !.mark = id]
                          ELSE [ps EXCEPT !.i = NextRow(ps.i, n, TRUE),
                                          !.errors = @ + 1, !.ran = @ + 1,
                                          !.last = "upsert-err"]]
    /\ AfterRequest(d)
    /\ UNCHANGED <<now, nextID, lastSync, syncing, tickCount, online, msgs, created,
                   reply, editor, versions, auth, users, regs, requests, admitted>>

\* the second half of UploadLive: SetNoteSynced with the id of the
\* response, Uploaded++
MarkSynced(d, p) ==
    /\ p \in 1..Len(passes[d])
    /\ passes[d][p].mark # NoID
    /\ LET ps == passes[d][p]
           note == ps.pending[ps.i]
           n == Len(ps.pending)
       IN /\ notes' = [notes EXCEPT ![d] = SetNoteSynced(@, note.id, ps.mark)]
          /\ passes' = [passes EXCEPT
                ![d][p] = [ps EXCEPT !.i = NextRow(ps.i, n, FALSE),
                                     !.uploaded = @ + 1, !.ran = @ + 1,
                                     !.last = "upsert-ok", !.mark = NoID]]
    /\ UNCHANGED <<now, nextID, remote, nextUUID, lastSync, syncing, tickCount,
                   online, msgs, events, budget, created, lost, quiet, reply, editor, versions, auth, users, regs, requests, admitted>>

\* the download phase and the end of Sync: SyncNotes(lastSync), then
\* UpsertFromServer for every fetched row; doSync turns the result into a
\* syncResultMsg
Download(d, p, ok) ==
    /\ p \in 1..Len(passes[d])
    /\ passes[d][p].i > Len(passes[d][p].pending)
    /\ passes' = [passes EXCEPT ![d] = RemoveAt(@, p)]
    /\ LET ps == passes[d][p]
           n == Len(ps.pending)
       IN IF ok
          THEN \E rows \in {SyncNotes(remote, UserOf(d), ps.lastSync)} :
               \E st \in {ApplyDownloads([db |-> notes[d], next |-> nextID[d]], rows)} :
                    /\ notes' = [notes EXCEPT ![d] = st.db]
                    /\ nextID' = [nextID EXCEPT ![d] = st.next]
                    /\ msgs' = [msgs EXCEPT ![d] = Append(@,
                           SyncResultMsg(SyncSuccess(ps.errors, 0), ps.uploaded,
                                         Len(rows), "ok", ps.errors, ps.ran, n))]
                    /\ UNCHANGED <<events, budget>>
          ELSE /\ Event(1)
               /\ msgs' = [msgs EXCEPT ![d] = Append(@,
                      SyncResultMsg(SyncSuccess(ps.errors, 1), ps.uploaded, 0,
                                    "fail", ps.errors, ps.ran, n))]
               /\ UNCHANGED <<notes, nextID>>
    /\ UNCHANGED <<now, remote, nextUUID, lastSync, syncing, tickCount, online,
                   created, lost, quiet, reply, editor, versions, auth, users, regs, requests, admitted>>

\* what the devices in D and their environment can do
NextOf(D) ==
    \/ \E dt \in {1, SubSec} : AdvanceClock(dt)
    \/ \E d \in D, b \in BOOLEAN : OnlineCheck(d, b)
    \/ \E d \in D, ok \in BOOLEAN : Tick(d, ok)
    \/ \E d \in D, ok \in BOOLEAN : SyncKey(d, ok)
    \/ \E d \in D : HandleSyncResult(d)
    \/ \E d \in D : CreateNote(d)
    \/ \E d \in D : \E k \in DOMAIN notes[d], c \in Contents, ok \in BOOLEAN :
          SaveCurrentNote(d, k, c, ok)
    \/ \E d \in D : \E k \in DOMAIN notes[d] : DeleteCurrentNote(d, k)
    \/ \E d \in D : \E p \in DOMAIN passes[d], out \in Outcomes : UploadDeleted(d, p, out)
    \/ \E d \in D : \E p \in DOMAIN passes[d], out \in Outcomes : UploadLive(d, p, out)
    \/ \E d \in D : \E p \in DOMAIN passes[d], ok \in BOOLEAN : Download(d, p, ok)

Next == NextOf(Dev)

\* the same for device 1 alone, with the two halves of an upload apart
NextRace ==
    \/ \E dt \in {1, SubSec} : AdvanceClock(dt)
    \/ \E b \in BOOLEAN : OnlineCheck(1, b)
    \/ \E ok \in BOOLEAN : Tick(1, ok)
    \/ \E ok \in BOOLEAN : SyncKey(1, ok)
    \/ HandleSyncResult(1)
    \/ CreateNote(1)
    \/ \E k \in DOMAIN notes[1], c \in Contents, ok \in BOOLEAN :
          SaveCurrentNote(1, k, c, ok)
    \/ \E k \in DOMAIN notes[1] : DeleteCurrentNote(1, k)
    \/ \E p \in DOMAIN passes[1], out \in Outcomes : UploadDeleted(1, p, out)
    \/ \E p \in DOMAIN passes[1], out \in Outcomes : SendUpsert(1, p, out)
    \/ \E p \in DOMAIN passes[1] : MarkSynced(1, p)
    \/ \E p \in DOMAIN passes[1], ok \in BOOLEAN : Download(1, p, ok)

NextSolo == NextOf({1})

\* both devices of the user
Spec == Init /\ [][Next]_vars

\* one device running alone, over a longer run
SpecSolo == InitSolo /\ [][NextSolo]_vars

\* device 1 alone while the ticks never stop: a tick is no event of the
\* bounded environment, it comes after the results posted before it were
\* handled, and the read of the pending rows does not fail
LiveTick == msgs[1] = <<>> /\ TickMsg(1, TRUE, 0)

NextLive ==
    \/ LiveTick
    \/ HandleSyncResult(1)
    \/ CreateNote(1)
    \/ \E k \in DOMAIN notes[1], c \in Contents, ok \in BOOLEAN :
          SaveCurrentNote(1, k, c, ok)
    \/ \E k \in DOMAIN notes[1] : DeleteCurrentNote(1, k)
    \/ \E p \in DOMAIN passes[1], out \in Outcomes : UploadDeleted(1, p, out)
    \/ \E p \in DOMAIN passes[1], out \in Outcomes : UploadLive(1, p, out)
    \/ \E p \in DOMAIN passes[1], ok \in BOOLEAN : Download(1, p, ok)

InitLive == InitOf({1}, MaxLiveEvents)

\* the tick keeps coming (tickCmd re-arms itself), a running command goes on
\* to its next call, a call that is not made to fail is answered, and the
\* update loop handles the results posted to it
AnsweredCall ==
    \E p \in DOMAIN passes[1] :
        \/ UploadDeleted(1, p, "ok")
        \/ UploadLive(1, p, "ok")
        \/ Download(1, p, TRUE)

FairLive ==
    /\ WF_vars(LiveTick)
    /\ WF_vars(HandleSyncResult(1))
    /\ WF_vars(AnsweredCall)

SpecLive == InitLive /\ [][NextLive]_vars /\ FairLive

InitRace == InitOf({1}, MaxRaceEvents)

SpecRace == InitRace /\ [][NextRace]_vars

\* both devices after device 1 created note "A" in the first second, a
\* periodic pass of device 1 uploaded it and a pass of device 2 downloaded
\* it; every pass has ended and its result has been handled
InitShared ==
    /\ now = SubSec
    /\ notes = [d \in Dev |->
                  <<Row(1, "A", "e0", "[]", SubSec, SubSec, 1, "synced", FALSE)>>]
    /\ nextID = [d \in Dev |-> 2]
    /\ remote = {ServerNote(1, UserOf(1), "A", "e0", "[]", SubSec, SubSec)}
    /\ nextUUID = 1
    /\ lastSync = [d \in Dev |-> Unix(SubSec)]
    /\ syncing = [d \in Dev |-> FALSE]
    /\ tickCount = [d \in Dev |-> 0]
    /\ online = [d \in Dev |-> FALSE]
    /\ passes = [d \in Dev |-> <<>>]
    /\ msgs = [d \in Dev |-> <<>>]
    /\ events = 0
    /\ budget = MaxSharedEvents
    /\ created = 1
    /\ lost = {}
    /\ quiet = [d \in Dev |-> "done"]
    /\ reply = NoReply
    /\ editor = [d \in Dev |-> NoEditor]
    /\ versions = [d \in Dev |-> <<>>]
    /\ auth = [d \in Dev |-> SignedIn]
    /\ users = {}
    /\ regs = NoRegistrations
    /\ requests = NoRequests
    /\ admitted = [ip \in ClientIPs |-> <<>>]

SpecShared == InitShared /\ [][Next]_vars

(***************************************************************************)
(* UpsertFromServer on its own: device 1 holds any one row (and possibly a *)
(* second, never-synced one), the server any one row with id 1, and two    *)
(* passes of device 1 that have nothing to upload run their download       *)
(* phase one after the other, on the same remote row.                      *)
(***************************************************************************)
LocalTimes == SubSec..(MaxSec * SubSec + SubSec - 1)

ServerSecs == 1..MaxSec

InitUpsert ==
    \E title \in {"A", "B"}, content \in Contents, updatedAt \in LocalTimes,
       serverID \in {NoID, 1}, status \in {"pending", "synced"},
       deleted \in BOOLEAN, second \in BOOLEAN,
       stitle \in {"A", "B"}, scontent \in Contents, ssec \in ServerSecs :
        /\ now = MaxSec * SubSec
        /\ notes = [d \in Dev |->
                      IF d # 1 THEN <<>>
                      ELSE <<Row(1, title, content, "[]", SubSec, updatedAt,
                                 serverID, status, deleted)>>
                           \o (IF second
                               THEN <<Row(2, "C", "e0", "[]", SubSec, SubSec,
                                          NoID, "pending", FALSE)>>
                               ELSE <<>>)]
        /\ nextID = [d \in Dev |-> 3]
        /\ remote = {ServerNote(1, UserOf(1), stitle, scontent, "[]",
                                TimeUnix(1), TimeUnix(ssec))}
        /\ nextUUID = 1
        /\ lastSync = [d \in Dev |-> 0]
        /\ syncing = [d \in Dev |-> FALSE]
        /\ tickCount = [d \in Dev |-> 0]
        /\ online = [d \in Dev |-> TRUE]
        /\ passes = [d \in Dev |->
                       IF d = 1 THEN <<NewPass(0, <<>>), NewPass(0, <<>>)>> ELSE <<>>]
        /\ msgs = [d \in Dev |-> <<>>]
        /\ events = 0
        /\ budget = 0
        /\ created = 3
        /\ lost = {}
        /\ quiet = [d \in Dev |-> "no"]
        /\ reply = NoReply
        /\ editor = [d \in Dev |-> NoEditor]
        /\ versions = [d \in Dev |-> <<>>]
        /\ auth = [d \in Dev |-> SignedIn]
        /\ users = {}
        /\ regs = NoRegistrations
        /\ requests = NoRequests
        /\ admitted = [ip \in ClientIPs |-> <<>>]

NextUpsert == Download(1, 1, TRUE)

SpecUpsert == InitUpsert /\ [][NextUpsert]_vars

(***************************************************************************)
(* LocalStore on its own: device 1 holds any one row, no pass runs, and    *)
(* the mutating calls of internal/db/notes.go are made one after the other *)
(* while the clock advances.                                               *)
(***************************************************************************)
Passwords == {"", "h1"}

InitStore ==
    \E content \in Contents, updatedAt \in SubSec..(SubSec + 1),
       serverID \in {NoID, 1}, status \in {"pending", "synced"}, deleted \in BOOLEAN :
        \* a synced row holds the id SetNoteSynced or UpsertFromServer gave it
        /\ status = "synced" => serverID # NoID
        /\ now = SubSec + 1
        /\ notes = [d \in Dev |->
                      IF d # 1 THEN <<>>
                      ELSE <<Row(1, "A", content, "[]", SubSec, updatedAt,
                                 serverID, status, deleted)>>]
        /\ nextID = [d \in Dev |-> 2]
        /\ remote = IF serverID = NoID THEN {}
                    ELSE {ServerNote(1, UserOf(1), "A", "e0", "[]", SubSec, SubSec)}
        /\ nextUUID = 1
        /\ lastSync = [d \in Dev |-> 0]
        /\ syncing = [d \in Dev |-> FALSE]
        /\ tickCount = [d \in Dev |-> 0]
        /\ online = [d \in Dev |-> FALSE]
        /\ passes = [d \in Dev |-> <<>>]
        /\ msgs = [d \in Dev |-> <<>>]
        /\ events = 0
        /\ budget = MaxStoreEvents
        /\ created = 1
        /\ lost = {}
        /\ quiet = [d \in Dev |-> "no"]
        /\ reply = NoReply
        /\ editor = [d \in Dev |-> NoEditor]
        /\ versions = [d \in Dev |-> <<>>]
        /\ auth = [d \in Dev |-> SignedIn]
        /\ users = {}
        /\ regs = NoRegistrations
        /\ requests = NoRequests
        /\ admitted = [ip \in ClientIPs |-> <<>>]

\* a call of LocalStore on device 1 that leaves table db
StoreCall(db) ==
    /\ Event(1)
    /\ notes' = [notes EXCEPT ![1] = db]
    /\ UNCHANGED <<now, remote, nextUUID, lastSync, syncing, tickCount, online,
                   passes, msgs, lost, quiet, reply, editor, versions, auth, users, regs, requests, admitted>>

CallCreateNote(inFolder) ==
    /\ created < Len(Titles)
    /\ StoreCall(IF inFolder
                 THEN CreateNoteInFolder(notes[1], nextID[1], Titles[created + 1],
                                         "e0", "[]", now)
                 ELSE DBCreateNote(notes[1], nextID[1], Titles[created + 1],
                                   "e0", "[]", now))
    /\ created' = created + 1
    /\ nextID' = [nextID EXCEPT ![1] = @ + 1]

CallUpdateNote(k, content) ==
    /\ k \in DOMAIN notes[1]
    /\ StoreCall(UpdateNote(notes[1], notes[1][k].id, notes[1][k].title, content,
                            notes[1][k].tags, now))
    /\ UNCHANGED <<created, nextID>>

CallDeleteNote(k) ==
    /\ k \in DOMAIN notes[1]
    /\ StoreCall(DeleteNote(notes[1], notes[1][k].id, now))
    /\ UNCHANGED <<created, nextID>>

CallRestoreNoteVersion(k, content) ==
    /\ k \in DOMAIN notes[1]
    /\ StoreCall(RestoreNoteVersion(notes[1], notes[1][k].id, notes[1][k].title,
                                    content, notes[1][k].tags, now))
    /\ UNCHANGED <<created, nextID>>

CallSetNotePassword(k, password) ==
    /\ k \in DOMAIN notes[1]
    /\ StoreCall(SetNotePassword(notes[1], notes[1][k].id, password, now))
    /\ UNCHANGED <<created, nextID>>

NextStore ==
    \/ \E dt \in {1, SubSec} : AdvanceClock(dt)
    \/ \E inFolder \in BOOLEAN : CallCreateNote(inFolder)
    \/ \E k \in DOMAIN notes[1], c \in Contents : CallUpdateNote(k, c)
    \/ \E k \in DOMAIN notes[1] : CallDeleteNote(k)
    \/ \E k \in DOMAIN notes[1], c \in Contents : CallRestoreNoteVersion(k, c)
    \/ \E k \in DOMAIN notes[1], pw \in Passwords : CallSetNotePassword(k, pw)

SpecStore == InitStore /\ [][NextStore]_vars

(***************************************************************************)
(* The server on its own: two users send requests with valid tokens, with  *)
(* any id the server has minted so far (their own or the other user's) or  *)
(* with none.  No device runs.                                             *)
(***************************************************************************)
Users == {1, 2}

InitServer ==
    /\ now = SubSec
    /\ notes = [d \in Dev |-> <<>>]
    /\ nextID = [d \in Dev |-> 1]
    /\ remote = {}
    /\ nextUUID = 0
    /\ lastSync = [d \in Dev |-> 0]
    /\ syncing = [d \in Dev |-> FALSE]
    /\ tickCount = [d \in Dev |-> 0]
    /\ online = [d \in Dev |-> FALSE]
    /\ passes = [d \in Dev |-> <<>>]
    /\ msgs = [d \in Dev |-> <<>>]
    /\ events = 0
    /\ budget = MaxServerCalls
    /\ created = 0
    /\ lost = {}
    /\ quiet = [d \in Dev |-> "no"]
    /\ reply = NoReply
    /\ editor = [d \in Dev |-> NoEditor]
    /\ versions = [d \in Dev |-> <<>>]
    /\ auth = [d \in Dev |-> SignedIn]
    /\ users = {}
    /\ regs = NoRegistrations
    /\ requests = NoRequests
    /\ admitted = [ip \in ClientIPs |-> <<>>]

\* a request of user u passed authMiddleware and its handler ran: rem is
\* the notes table it leaves, minted the number of ids it minted
Request(u, call, id, rem, rows, minted) ==
    /\ Event(1)
    /\ remote' = rem
    /\ nextUUID' = nextUUID + minted
    /\ reply' = Reply(u, call, id, rows)
    /\ UNCHANGED <<editor, versions, auth, users, regs, requests, admitted>>
    /\ UNCHANGED <<now, notes, nextID, lastSync, syncing, tickCount, online,
                   passes, msgs, created, lost, quiet>>

\* POST /api/notes: upsertNoteHandler, 400 on an empty title
UpsertCall(u, reqID, title, content, reqUnix) ==
    LET id == IF reqID = NoID THEN nextUUID + 1 ELSE reqID
        createdAt == HandlerTime(reqUnix, now)
        updatedAt == HandlerTime(reqUnix, now)
    IN IF title = ""
       THEN Request(u, "upsert", reqID, remote, {}, 0)
       ELSE Request(u, "upsert", id,
                    ServerUpsertNote(remote, u, id, title, content, "[]",
                                     createdAt, updatedAt),
                    {ServerNote(id, u, title, content, "[]", createdAt, updatedAt)},
                    IF reqID = NoID THEN 1 ELSE 0)

\* GET /api/notes/{id}: getNoteHandler, 404 when GetNote finds no row
GetCall(u, id) == Request(u, "get", id, remote, ServerGetNote(remote, id, u), 0)

\* GET /api/notes: listNotesHandler
ListCall(u) == Request(u, "list", NoID, remote, ListNotesByUser(remote, u), 0)

\* GET /api/notes/sync?since=: syncNotesHandler
SinceCall(u, since) ==
    LET resp == SyncNotes(remote, u, since)
    IN Request(u, "since", NoID, remote, {resp[k] : k \in DOMAIN resp}, 0)

\* DELETE /api/notes/{id}: deleteNoteHandler, 204 whatever was deleted
DeleteCall(u, id) ==
    Request(u, "delete", id, ServerDeleteNote(remote, id, u), {}, 0)

NextServer ==
    \/ \E dt \in {1, SubSec} : AdvanceClock(dt)
    \/ \E u \in Users, id \in 0..nextUUID, title \in {"", "A"},
          content \in Contents, reqUnix \in 0..MaxSec :
          UpsertCall(u, id, title, content, reqUnix)
    \/ \E u \in Users, id \in 1..nextUUID : GetCall(u, id)
    \/ \E u \in Users : ListCall(u)
    \/ \E u \in Users, since \in 0..MaxSec : SinceCall(u, since)
    \/ \E u \in Users, id \in 1..nextUUID : DeleteCall(u, id)

SpecServer == InitServer /\ [][NextServer]_vars

(***************************************************************************)
(* Properties.  Steps are recognised by what they leave behind.            *)
(***************************************************************************)
\* this step is Update(syncResultMsg) of device d
Handled(d) == msgs[d] # <<>> /\ msgs'[d] = Tail(msgs[d])

\* this step is one turn of the upload loop of pass p of device d
Ran(d, p) ==
    /\ p \in DOMAIN passes[d]
    /\ Len(passes'[d]) = Len(passes[d])
    /\ passes'[d][p].ran = passes[d][p].ran + 1

\* the row of the snapshot that pass p of device d turns to next
Current(d, p) == passes[d][p].pending[passes[d][p].i]

\* this step is the download phase of pass p of device d, and the fetch succeeded
Downloaded(d, p) ==
    /\ p \in DOMAIN passes[d]
    /\ passes'[d] = RemoveAt(passes[d], p)
    /\ Len(msgs'[d]) = Len(msgs[d]) + 1
    /\ msgs'[d][Len(msgs'[d])].fetch = "ok"

\* C1: at most one sync pass of a device is in flight at any time, whatever
\* trigger fires while a pass is running
OnePassInFlight == \A d \in Dev : Len(passes[d]) <= 1

\* C2: when a pass uploads a pending live row that was never synced and the
\* upsert succeeds, the local row is synced under the id the server returned
\* and the remote table holds exactly one row for that note
FirstUploadLeavesOneRemoteRow ==
    [][\A d \in Dev : \A p \in DOMAIN passes[d] :
          (/\ Ran(d, p)
           /\ passes'[d][p].last = "upsert-ok"
           /\ Current(d, p).serverID = NoID)
          => /\ \A k \in DOMAIN notes'[d] :
                   notes'[d][k].id = Current(d, p).id
                   => /\ notes'[d][k].syncStatus = "synced"
                      /\ notes'[d][k].serverID = nextUUID'
             /\ Cardinality({s \in remote' : s.title = Current(d, p).title}) = 1
      ]_vars

\* C3: when the server applied the upsert of a never-synced note and the
\* client saw a transport error, the upload that retries the row leaves at
\* most one remote row and, on every device, at most one local row for the note
ReplayedUploadLeavesOneRow ==
    [][\A d \in Dev : \A p \in DOMAIN passes[d] :
          (/\ Ran(d, p)
           /\ passes'[d][p].last = "upsert-ok"
           /\ Current(d, p).serverID = NoID
           /\ Current(d, p).title \in lost)
          => /\ Cardinality({s \in remote' : s.title = Current(d, p).title}) <= 1
             /\ \A e \in Dev :
                   Cardinality({k \in DOMAIN notes'[e] :
                                   notes'[e][k].title = Current(d, p).title}) <= 1
      ]_vars

\* C4: last write wins on the server: while no device runs two passes at
\* once, no step replaces a remote row by one with an older updatedAt
LastWriteWins ==
    [][(\A d \in Dev : Len(passes[d]) <= 1)
       => \A r \in remote : \A r2 \in remote' :
             r2.id = r.id => r2.updatedAt >= r.updatedAt
      ]_vars

\* C5: when the download phase applies a fetched row whose id a local row
\* references, the local row takes the remote title, content, tags and
\* updatedAt and becomes synced if the remote updatedAt is strictly after
\* the local one, and is left exactly as it was if it is equal or older
UpsertFromServerStrictlyNewer ==
    [][\A d \in Dev : \A p \in DOMAIN passes[d] :
          Downloaded(d, p)
          => \A s \in GetNotesSince(remote, UserOf(d), SinceTime(passes[d][p].lastSync)) :
             \A k \in DOMAIN notes[d] :
                notes[d][k].serverID = s.id
                => notes'[d][k] =
                      IF After(TimeUnix(Unix(s.updatedAt)), notes[d][k].updatedAt)
                      THEN [notes[d][k] EXCEPT
                               !.title = s.title, !.content = s.content,
                               !.tags = s.tags,
                               !.updatedAt = TimeUnix(Unix(s.updatedAt)),
                               !.syncStatus = "synced"]
                      ELSE notes[d][k]
      ]_vars

\* C5 happens: a download has run, and a pending local row with the
\* updatedAt of the remote row it references still holds its own content
TieLeftUntouched ==
    /\ msgs[1] # <<>>
    /\ \E k \in DOMAIN notes[1] : \E s \in remote :
          /\ notes[1][k].serverID = s.id
          /\ notes[1][k].updatedAt = s.updatedAt
          /\ notes[1][k].syncStatus = "pending"
          /\ notes[1][k].content # s.content

\* C6: the checkpoint a device has saved is an upper bound of what it has
\* downloaded: every remote row of its user with updatedAt <= checkpoint is
\* referenced by a local row of the device
CheckpointCoversRemote ==
    \A d \in Dev : \A s \in remote :
        (/\ lastSync[d] > 0
         /\ s.userID = UserOf(d)
         /\ s.updatedAt <= TimeUnix(lastSync[d]))
        => \E k \in DOMAIN notes[d] : notes[d][k].serverID = s.id

\* C7 as stated: the result of a pass whose fetch succeeded sets the
\* checkpoint to the current second, item-level errors or not
FetchedPassAdvancesCheckpoint ==
    [][\A d \in Dev :
          Handled(d) /\ Head(msgs[d]).fetch = "ok"
          => lastSync'[d] = Unix(now)
      ]_vars

\* C7, amended: the result of a pass whose fetch succeeded sets the
\* checkpoint to the current second when the pass recorded no item-level
\* error, and leaves it as it was when it recorded one
CleanPassAdvancesCheckpoint ==
    [][\A d \in Dev :
          Handled(d) /\ Head(msgs[d]).fetch = "ok"
          => lastSync'[d] = IF Head(msgs[d]).itemErrors = 0
                            THEN Unix(now) ELSE lastSync[d]
      ]_vars

\* C7 happens: the next result to handle is of a pass whose fetch succeeded
\* after an item-level error, and the checkpoint is not the current second
FetchedWithItemError ==
    \E d \in Dev :
        /\ msgs[d] # <<>>
        /\ Head(msgs[d]).fetch = "ok"
        /\ Head(msgs[d]).itemErrors > 0
        /\ lastSync[d] # Unix(now)

\* C8: the result of a pass whose fetch failed, or that ended because the
\* pending rows could not be read, leaves the checkpoint as it was
FailedPassKeepsCheckpoint ==
    [][\A d \in Dev :
          Handled(d) /\ Head(msgs[d]).fetch \in {"fail", "none"}
          => lastSync'[d] = lastSync[d]
      ]_vars

\* C8 happens: the next result to handle is of a pass whose fetch failed,
\* on a device that saved a checkpoint in an earlier second
FetchFailedAfterCheckpoint ==
    \E d \in Dev :
        /\ msgs[d] # <<>>
        /\ Head(msgs[d]).fetch = "fail"
        /\ lastSync[d] > 0
        /\ lastSync[d] < Unix(now)

\* C9: a failed upsert of a live row adds one error to the pass and leaves
\* the local table as it was; the row, if it was pending, is still among
\* the rows GetPendingNotes selects
FailedUpsertLeavesRow ==
    [][\A d \in Dev : \A p \in DOMAIN passes[d] :
          Ran(d, p) /\ passes'[d][p].last = "upsert-err"
          => /\ notes'[d] = notes[d]
             /\ passes'[d][p].errors = passes[d][p].errors + 1
             /\ \A k \in DOMAIN notes[d] :
                   notes[d][k].id = Current(d, p).id /\ IsPending(notes[d][k])
                   => \E j \in DOMAIN GetPendingNotes(notes'[d]) :
                         GetPendingNotes(notes'[d])[j] = notes[d][k]
      ]_vars

\* C9 happens: the last upsert of a running pass failed and its row is
\* pending in the local table
UpsertFailedRowPending ==
    \E d \in Dev : \E p \in DOMAIN passes[d] :
        /\ passes[d][p].last = "upsert-err"
        /\ passes[d][p].errors >= 1
        /\ \E k \in DOMAIN notes[d] :
              /\ notes[d][k].id = passes[d][p].pending[passes[d][p].i - 1].id
              /\ IsPending(notes[d][k])

\* C10: a pass has run the loop body once for each row before the one it
\* turns to next, failed rows included, and never goes past the snapshot;
\* a result sent after the upload loop comes from a pass that ran every row
\* of its snapshot and then called the fetch
EveryPendingRowProcessed ==
    /\ \A d \in Dev : \A p \in DOMAIN passes[d] :
          /\ passes[d][p].ran = passes[d][p].i - 1
          /\ passes[d][p].i <= Len(passes[d][p].pending) + 1
          /\ passes[d][p].ran = passes[d][p].uploaded + passes[d][p].deleted
                                + passes[d][p].errors
    /\ \A d \in Dev : \A k \in DOMAIN msgs[d] :
          /\ msgs[d][k].ran = msgs[d][k].size
          /\ msgs[d][k].itemErrors > 0 => msgs[d][k].fetch \in {"ok", "fail"}

\* C10 happens: a pass over two or more rows has run them all, one of the
\* earlier rows failed and the last one was uploaded
RowsAfterFailureProcessed ==
    \E d \in Dev : \E p \in DOMAIN passes[d] :
        /\ Len(passes[d][p].pending) >= 2
        /\ passes[d][p].i > Len(passes[d][p].pending)
        /\ passes[d][p].errors >= 1
        /\ passes[d][p].last = "upsert-ok"

\* C11: the turn of the upload loop for a pending tombstone that was never
\* uploaded calls neither the remote delete nor the remote upsert (the
\* server's table and its ids stay as they were, no transport outcome is
\* drawn, no error is recorded) and hard-removes the local row
UnsyncedTombstoneRemovedLocally ==
    [][\A d \in Dev : \A p \in DOMAIN passes[d] :
          (/\ Ran(d, p)
           /\ Current(d, p).deleted
           /\ Current(d, p).serverID = NoID)
          => /\ remote' = remote
             /\ nextUUID' = nextUUID
             /\ events' = events
             /\ passes'[d][p].errors = passes[d][p].errors
             /\ passes'[d][p].last = "local-delete"
             /\ \A k \in DOMAIN notes'[d] : notes'[d][k].id # Current(d, p).id
             /\ \A k \in DOMAIN notes[d] :
                   notes[d][k].id # Current(d, p).id
                   => \E j \in DOMAIN notes'[d] : notes'[d][j] = notes[d][k]
      ]_vars

\* C11 happens: a pass has just removed a never-uploaded tombstone, the row
\* is gone and the server holds nothing
TombstoneRemovedLocally ==
    \E d \in Dev : \E p \in DOMAIN passes[d] :
        /\ passes[d][p].last = "local-delete"
        /\ passes[d][p].deleted = 1
        /\ notes[d] = <<>>
        /\ remote = {}

\* C12: the turn of the upload loop for a pending tombstone that references
\* a server id calls the remote delete; when the call succeeds the remote
\* row of the user is gone and the local row is hard-removed, when it fails
\* the local table is as it was (the row still deleted and pending) and one
\* more error is recorded
SyncedTombstoneRemovedOnSuccess ==
    [][\A d \in Dev : \A p \in DOMAIN passes[d] :
          (/\ Ran(d, p)
           /\ Current(d, p).deleted
           /\ Current(d, p).serverID # NoID)
          => \/ /\ passes'[d][p].last = "delete-ok"
                /\ passes'[d][p].errors = passes[d][p].errors
                /\ \A s \in remote' : s.id # Current(d, p).serverID
                /\ \A k \in DOMAIN notes'[d] : notes'[d][k].id # Current(d, p).id
             \/ /\ passes'[d][p].last = "delete-err"
                /\ passes'[d][p].errors = passes[d][p].errors + 1
                /\ notes'[d] = notes[d]
      ]_vars

\* C12 happens: the remote delete of a running pass has just failed and the
\* tombstone is still in the local table, deleted and pending
DeleteFailedRowKept ==
    \E d \in Dev : \E p \in DOMAIN passes[d] :
        /\ passes[d][p].last = "delete-err"
        /\ \E k \in DOMAIN notes[d] :
              /\ notes[d][k].id = passes[d][p].pending[passes[d][p].i - 1].id
              /\ notes[d][k].deleted
              /\ notes[d][k].serverID # NoID
              /\ IsPending(notes[d][k])

SecondApplyIsNoOp ==
    [][\A d \in Dev : \A p \in DOMAIN passes[d] :
          (/\ Downloaded(d, p)
           /\ passes[d][p].lastSync = 0
           /\ msgs[d] # <<>>
           /\ msgs[d][Len(msgs[d])].fetch = "ok"
           /\ msgs[d][Len(msgs[d])].downloaded = Cardinality(remote))
          => /\ notes'[d] = notes[d]
             /\ nextID'[d] = nextID[d]
             /\ msgs'[d][Len(msgs'[d])].downloaded = Cardinality(remote)
      ]_vars

\* C14 happens: the remote row was applied twice on device 1, the first
\* application inserted a row for it and the table still holds that row once
AppliedTwiceAfterInsert ==
    /\ Len(msgs[1]) = 2
    /\ msgs[1][2].downloaded = 1
    /\ nextID[1] = 4
    /\ Cardinality({k \in DOMAIN notes[1] : notes[1][k].serverID = 1}) = 1

\* C15: on every device at most one local row references any given
\* non-empty server id
OneRowPerServerID ==
    \A d \in Dev : \A j, k \in DOMAIN notes[d] :
        notes[d][j].serverID # NoID /\ notes[d][j].serverID = notes[d][k].serverID
        => j = k

\* the row of table db with rowid id (Null when there is none)
RowOf(db, id) ==
    IF \E k \in DOMAIN db : db[k].id = id
    THEN db[CHOOSE k \in DOMAIN db : db[k].id = id]
    ELSE Null

\* this step is a turn of the upload loop of device d that ended a delete
\* of the row with rowid id
DeleteTurn(d, id) ==
    \E p \in DOMAIN passes[d] :
        /\ Ran(d, p)
        /\ Current(d, p).id = id
        /\ passes'[d][p].last \in {"local-delete", "delete-ok"}

\* this step is a turn of the upload loop of device d whose upsert of the
\* row with rowid id succeeded
UpsertTurn(d, id) ==
    \E p \in DOMAIN passes[d] :
        /\ Ran(d, p)
        /\ Current(d, p).id = id
        /\ passes'[d][p].last = "upsert-ok"

\* C16: in every step, a row that appears is pending and never synced
\* (created) or synced (inserted by a download); a row changes its
\* syncStatus only from pending to synced, by a successful upload of the row
\* or by a download, or to pending, by an edit or a soft delete that stamps
\* it; a row disappears only in a delete turn of a sync pass for that row
\* and only if it is a tombstone
SyncStatusLifecycle ==
    [][\A d \in Dev :
          /\ \A k \in DOMAIN notes'[d] :
                LET new == notes'[d][k]
                    old == RowOf(notes[d], new.id)
                IN /\ new.syncStatus \in {"pending", "synced"}
                   /\ old = Null
                      => \/ /\ IsPending(new) /\ new.serverID = NoID /\ ~new.deleted
                            /\ created' = created + 1
                         \/ /\ new.syncStatus = "synced" /\ ~new.deleted
                            /\ \E p \in DOMAIN passes[d] : Downloaded(d, p)
                   /\ old # Null /\ new.syncStatus # old.syncStatus
                      => \/ /\ IsPending(old) /\ new.syncStatus = "synced"
                            /\ \/ UpsertTurn(d, new.id)
                               \/ \E p \in DOMAIN passes[d] : Downloaded(d, p)
                         \/ /\ IsPending(new)
                            /\ new.updatedAt = now
                            /\ events' > events
                            /\ new.deleted # old.deleted \/ new.content # old.content
          /\ \A k \in DOMAIN notes[d] :
                RowOf(notes'[d], notes[d][k].id) = Null
                => notes[d][k].deleted /\ DeleteTurn(d, notes[d][k].id)
      ]_vars

\* C16 happens: a row that was synced has been soft-deleted, uploaded as a
\* tombstone and hard-removed by the pass
TombstoneRemovedAfterSync ==
    \E d \in Dev : \E p \in DOMAIN passes[d] :
        /\ passes[d][p].last = "delete-ok"
        /\ notes[d] = <<>>
        /\ remote = {}

\* C17: no step changes the server id of a local row that holds a
\* non-empty one to a different value
ServerIDWrittenOnce ==
    [][\A d \in Dev : \A k \in DOMAIN notes[d] :
          LET old == notes[d][k]
              new == RowOf(notes'[d], old.id)
          IN old.serverID # NoID /\ new # Null => new.serverID = old.serverID
      ]_vars

\* C18: while no pass runs, a row that a step creates or writes (a call of
\* CreateNote, CreateNoteInFolder, UpdateNote, DeleteNote,
\* RestoreNoteVersion or SetNotePassword) is stamped with the time of the
\* call and is pending afterwards
MutatingCallLeavesPending ==
    [][\A d \in Dev : \A k \in DOMAIN notes'[d] :
          (/\ passes[d] = <<>>
           /\ notes'[d] # notes[d]
           /\ notes'[d][k] # RowOf(notes[d], notes'[d][k].id))
          => /\ IsPending(notes'[d][k])
             /\ notes'[d][k].updatedAt \in {now, CurrentTimestamp(now)}
      ]_vars

\* the rowids the user's notes of a run of SpecLive can take
LiveRows == 1..MaxLiveEvents

\* C19: once the environment has spent its events (no further edit, no
\* further fault) while the ticks keep starting passes, every pending row
\* of the device is eventually synced, if it is live, or hard-removed, if it
\* is a tombstone
PendingRowsSettle ==
    \A id \in LiveRows :
        (/\ events = budget
         /\ RowOf(notes[1], id) # Null
         /\ IsPending(RowOf(notes[1], id)))
        ~> \/ RowOf(notes[1], id) = Null
           \/ /\ RowOf(notes[1], id).syncStatus = "synced"
              /\ ~RowOf(notes[1], id).deleted

\* this step is a request made to the server directly
Requested == events' = events + 1 /\ now' = now /\ reply'.call # "none"

\* C20: a request made for a user returns rows of that user only, leaves
\* every row of every other user in the table as it was, and no row ever
\* changes its owner
OwnerScoped ==
    [][Requested
       => /\ \A r \in reply'.rows : r.userID = reply'.user
          /\ reply'.call \in {"get", "list", "since"} => reply'.rows \subseteq remote
          /\ \A r \in remote : r.userID # reply'.user => r \in remote'
          /\ \A r \in remote' : r.userID # reply'.user => r \in remote
          /\ \A r \in remote : \A r2 \in remote' :
                r.id = r2.id => r2.userID = r.userID
      ]_vars

\* C20 happens: a user has just asked the server to delete, or to replace,
\* the row of another user by its id, and the row is in the table
ForeignWriteRefused ==
    /\ reply.call \in {"delete", "upsert"}
    /\ \E r \in remote : r.id = reply.id /\ r.userID # reply.user

\* C21: an upsert with a title and the id of a row of another user leaves
\* the notes table as it was (that row unchanged, no row for the caller) and
\* is answered 200 with the note of the request
ForeignUpsertIsNoOp ==
    [][\A u \in Users : \A id \in 1..nextUUID : \A content \in Contents :
          \A reqUnix \in 0..MaxSec :
             (/\ UpsertCall(u, id, "A", content, reqUnix)
              /\ \E r \in remote : r.id = id /\ r.userID # u)
             => /\ remote' = remote
                /\ \A r \in remote' : r.userID = u => r.id # id
                /\ reply'.rows # {}
                /\ \A r \in reply'.rows : r.id = id /\ r.title = "A"
      ]_vars

\* C21 happens: the upsert of a user carried the id of another user's row
\* and was answered 200
ForeignUpsertAnswered ==
    /\ reply.call = "upsert"
    /\ reply.rows # {}
    /\ \E r \in remote : r.id = reply.id /\ r.userID # reply.user

\* C22: the updatedAt stored by an upsert is in the second of the server's
\* clock at the request, whatever updated_at the request carried
ServerStampsUpdatedAt ==
    [][(Requested /\ reply'.call = "upsert" /\ reply'.rows # {})
       => \A r \in remote' :
             (r.id = reply'.id /\ r.userID = reply'.user)
             => Unix(r.updatedAt) = Unix(now)
      ]_vars

\* C23: for every user and every since value a client can send, the answer
\* of the sync endpoint lists, once each, exactly the user's rows with
\* updatedAt after time.Unix(since, 0), newest first; with checkpoint 0 (no
\* since parameter) it lists all the rows of the user
SyncNotesSelectsNewer ==
    \A u \in Users : \A since \in 0..MaxSec :
        LET resp == SyncNotes(remote, u, since)
            want == IF since = 0
                    THEN {r \in remote : r.userID = u}
                    ELSE {r \in remote : r.userID = u /\ r.updatedAt > TimeUnix(since)}
        IN /\ {resp[k] : k \in DOMAIN resp} = want
           /\ Len(resp) = Cardinality(want)
           /\ \A j \in DOMAIN resp : \A k \in DOMAIN resp :
                 j < k => resp[j].updatedAt >= resp[k].updatedAt

\* C23 happens: a sync request was answered with some of the user's rows,
\* two of them with different updatedAt, or with some and not all of them
SinceAnsweredInPart ==
    /\ reply.call = "since"
    /\ reply.rows # {}
    /\ \/ \E r \in remote : r.userID = reply.user /\ r \notin reply.rows
       \/ \E r \in reply.rows : \E r2 \in reply.rows : r.updatedAt # r2.updatedAt

(***************************************************************************)
(* The editor on its own: device 1 runs without a server (m.apiClient is   *)
(* nil) and with an encryptor; its notes table holds two notes, each       *)
(* encrypted with the key of this installation or with another key.  The   *)
(* user loads, edits, saves, tags and creates notes.                       *)
(***************************************************************************)
Keys == {1, 2}
Plain == {"", "a", "b"}
TagSets == {"null", "[\"x\"]"}

\* loadNote: the body put into note.Content, the plaintext of the stored
\* envelope or the placeholder when Decrypt fails; an empty content is left
LoadedContent(key, stored) ==
    IF stored # Text("")
    THEN IF DecryptOK(key, stored) THEN Decrypt(key, stored) ELSE Placeholder
    ELSE ""

\* loadNote: readOnly, set when Decrypt failed
LoadedReadOnly(key, stored) == stored # Text("") /\ ~DecryptOK(key, stored)

\* loadNote on row and Update(noteLoadedMsg): the Model after the note is loaded
NoteLoaded(ed, row) ==
    [ed EXCEPT !.currentNote = [id |-> row.id, title |-> row.title,
                                content |-> LoadedContent(ed.encryptor, row.content),
                                tags |-> row.tags],
               !.currentReadOnly = LoadedReadOnly(ed.encryptor, row.content),
               !.textarea = LoadedContent(ed.encryptor, row.content)]

\* variant of SavedContent that stores the text of the textarea as it is
SavedContentPlain(ed) == Text(ed.textarea)

\* saveCurrentNote: the content handed to UpdateNote, the envelope of the
\* textarea's value
SavedContent(ed) == Encrypt(ed.encryptor, ed.nonces + 1, ed.textarea)

\* saveTags: the content handed to UpdateNote, m.currentNote.Content
TagsContent(ed) == Text(ed.currentNote.content)

InitEditor ==
    \E k1 \in Keys, k2 \in Keys, x1 \in {"", "a"}, x2 \in {"", "a"} :
        /\ now = SubSec
        /\ notes = [d \in Dev |->
                      IF d = 1
                      THEN <<Row(1, "A", Encrypt(k1, 1, x1), "[]", SubSec, SubSec,
                                 NoID, "pending", FALSE),
                             Row(2, "B", Encrypt(k2, 2, x2), "[]", SubSec, SubSec,
                                 NoID, "pending", FALSE)>>
                      ELSE <<>>]
        /\ nextID = [d \in Dev |-> IF d = 1 THEN 3 ELSE 1]
        /\ remote = {}
        /\ nextUUID = 0
        /\ lastSync = [d \in Dev |-> 0]
        /\ syncing = [d \in Dev |-> FALSE]
        /\ tickCount = [d \in Dev |-> 0]
        /\ online = [d \in Dev |-> FALSE]
        /\ passes = [d \in Dev |-> <<>>]
        /\ msgs = [d \in Dev |-> <<>>]
        /\ events = 0
        /\ budget = MaxEditorEvents
        /\ created = 2
        /\ lost = {}
        /\ quiet = [d \in Dev |-> "no"]
        /\ reply = NoReply
        /\ editor = [d \in Dev |-> [NoEditor EXCEPT !.nonces = 2]]
        /\ versions = [d \in Dev |-> <<>>]
        /\ auth = [d \in Dev |-> SignedIn]
        /\ users = {}
        /\ regs = NoRegistrations
        /\ requests = NoRequests
        /\ admitted = [ip \in ClientIPs |-> <<>>]

\* a handler of the editor ran on device d: ed is the Model it leaves, db the
\* notes table, n the number of store writes it made
Handler(d, ed, db, n) ==
    /\ Event(n)
    /\ editor' = [editor EXCEPT ![d] = ed]
    /\ notes' = [notes EXCEPT ![d] = db]
    /\ UNCHANGED <<now, remote, nextUUID, lastSync, syncing, tickCount, online,
                   passes, msgs, lost, quiet, reply, versions, auth, users, regs, requests, admitted>>

\* Enter on note k of the list: loadNote, then Update(noteLoadedMsg)
loadNote(d, k) ==
    /\ editor[d].mode = "normal"
    /\ k \in DOMAIN notes[d]
    /\ Handler(d, NoteLoaded(editor[d], notes[d][k]), notes[d], 0)
    /\ UNCHANGED <<nextID, created>>

\* the Edit key: edit mode, unless no note is loaded or it is read-only
EditKey(d) ==
    /\ editor[d].mode = "normal"
    /\ editor[d].currentNote # Null
    /\ ~editor[d].currentReadOnly
    /\ Handler(d, [editor[d] EXCEPT !.mode = "editing"], notes[d], 0)
    /\ UNCHANGED <<nextID, created>>

\* a key typed in edit mode: the textarea takes it and the note is dirty
TypeKey(d, x) ==
    /\ editor[d].mode = "editing"
    /\ Handler(d, [editor[d] EXCEPT !.textarea = x, !.dirty = TRUE], notes[d], 0)
    /\ UNCHANGED <<nextID, created>>

\* saveCurrentNote: UpdateNote with the envelope of the textarea's value;
\* m.dirty is reset in the command's copy of the Model only
saveCurrentNote(d, mode) ==
    LET ed == editor[d]
    IN /\ Handler(d, [ed EXCEPT !.mode = mode, !.nonces = @ + 1],
                  UpdateNote(notes[d], ed.currentNote.id, ed.currentNote.title,
                             SavedContent(ed), ed.currentNote.tags, now), 1)
       /\ UNCHANGED <<nextID, created>>

\* Save in edit mode (close is FALSE) or Escape, GoToList, SaveAndClose
SaveKey(d, close) ==
    /\ editor[d].mode = "editing"
    /\ saveCurrentNote(d, IF close THEN "normal" ELSE "editing")

\* Update(tickMsg) in edit mode with a dirty note: auto-save
AutoSave(d) ==
    /\ editor[d].mode = "editing"
    /\ editor[d].dirty
    /\ saveCurrentNote(d, "editing")

\* the EditTags key: tag mode, unless no note is loaded
EditTagsKey(d) ==
    /\ editor[d].mode = "normal"
    /\ editor[d].currentNote # Null
    /\ Handler(d, [editor[d] EXCEPT !.mode = "editTags"], notes[d], 0)
    /\ UNCHANGED <<nextID, created>>

\* Enter in tag mode: saveTags, UpdateNote with m.currentNote.Content and
\* the tags typed, then loadNote of the same note
saveTags(d, tags) ==
    LET ed == editor[d]
        db == UpdateNote(notes[d], ed.currentNote.id, ed.currentNote.title,
                         TagsContent(ed), tags, now)
    IN /\ ed.mode = "editTags"
       /\ Handler(d, NoteLoaded([ed EXCEPT !.mode = "normal"],
                                RowOf(db, ed.currentNote.id)), db, 1)
       /\ UNCHANGED <<nextID, created>>

\* Enter in the title prompt: createNote, CreateNoteInFolder with the
\* envelope of the empty body
createNote(d) ==
    LET ed == editor[d]
    IN /\ ed.mode = "normal"
       /\ created < Len(Titles)
       /\ created' = created + 1
       /\ nextID' = [nextID EXCEPT ![d] = @ + 1]
       /\ Handler(d, [ed EXCEPT !.nonces = @ + 1],
                  CreateNoteInFolder(notes[d], nextID[d], Titles[created + 1],
                                     Encrypt(ed.encryptor, ed.nonces + 1, ""),
                                     "[]", now), 1)

NextEditor ==
    \/ \E k \in DOMAIN notes[1] : loadNote(1, k)
    \/ EditKey(1)
    \/ \E x \in Plain : TypeKey(1, x)
    \/ \E close \in BOOLEAN : SaveKey(1, close)
    \/ AutoSave(1)
    \/ EditTagsKey(1)
    \/ \E tags \in TagSets : saveTags(1, tags)
    \/ createNote(1)

SpecEditor == InitEditor /\ [][NextEditor]_vars

\* C24: every content in the notes table of the client is an envelope made
\* by the encryptor, never a plaintext and never the placeholder
StoredContentIsEnvelope ==
    \A k \in DOMAIN notes[1] : notes[1][k].content.key # 0

\* C25: while the loaded note is read-only (its content did not decrypt),
\* no step of the client changes the stored content of that note
ReadOnlyNoteKept ==
    [][(editor[1].currentNote # Null /\ editor[1].currentReadOnly)
       => RowOf(notes'[1], editor[1].currentNote.id).content
          = RowOf(notes[1], editor[1].currentNote.id).content
      ]_vars

VersionContents == Contents \cup {"e2"}
VersionTitles == {"A", "T"}
VersionTags == {GoTags(TRUE, <<>>), GoTags(FALSE, <<"x">>)}

InitVersions ==
    /\ now = SubSec + 1
    /\ notes = [d \in Dev |->
                  IF d # 1 THEN <<>>
                  ELSE <<Row(1, "A", "e0", "[]", SubSec, SubSec, 1, "synced", FALSE),
                         Row(2, "B", "e0", "[]", SubSec, SubSec, NoID, "pending", TRUE)>>]
    /\ nextID = [d \in Dev |-> 3]
    /\ remote = {ServerNote(1, UserOf(1), "A", "e0", "[]", SubSec, SubSec)}
    /\ nextUUID = 1
    /\ lastSync = [d \in Dev |-> 0]
    /\ syncing = [d \in Dev |-> FALSE]
    /\ tickCount = [d \in Dev |-> 0]
    /\ online = [d \in Dev |-> FALSE]
    /\ passes = [d \in Dev |-> <<>>]
    /\ msgs = [d \in Dev |-> <<>>]
    /\ events = 0
    /\ budget = MaxVersionEvents
    /\ created = 2
    /\ lost = {}
    /\ quiet = [d \in Dev |-> "no"]
    /\ reply = NoReply
    /\ editor = [d \in Dev |-> NoEditor]
    /\ versions = [d \in Dev |-> <<>>]
    /\ auth = [d \in Dev |-> SignedIn]
    /\ users = {}
    /\ regs = NoRegistrations
    /\ requests = NoRequests
    /\ admitted = [ip \in ClientIPs |-> <<>>]

\* SaveNoteVersion(noteID, title, content, tags) on device 1
CallSaveNoteVersion(noteID, title, content, tags) ==
    /\ Event(1)
    /\ versions' = [versions EXCEPT
                      ![1] = SaveNoteVersion(@, noteID, title, content, tags, now)]
    /\ UNCHANGED <<now, notes, nextID, remote, nextUUID, lastSync, syncing,
                   tickCount, online, passes, msgs, created, lost, quiet, reply,
                   editor, auth, users, regs, requests, admitted>>

\* RestoreNoteVersion(noteID, versionID) on device 1: GetNoteVersion, then
\* the UPDATE with the version's title, content and re-marshalled tags; an
\* error and no write when there is no such version
CallRestoreVersion(noteID, versionID) ==
    LET version == GetNoteVersion(versions[1], versionID)
    IN /\ StoreCall(IF version = Null THEN notes[1]
                    ELSE RestoreNoteVersion(notes[1], noteID, version.title,
                                            version.content,
                                            Marshal(Unmarshal(version.tags)), now))
       /\ UNCHANGED <<created, nextID>>

\* PermanentlyDeleteSynced(id) on device 1; foreign keys are not enforced
\* on the connection, so the versions of the note stay
CallPermanentlyDeleteSynced(k) ==
    /\ k \in DOMAIN notes[1]
    /\ StoreCall(PermanentlyDeleteSynced(notes[1], notes[1][k].id))
    /\ UNCHANGED <<created, nextID>>

NextVersions ==
    \/ AdvanceClock(SubSec)
    \/ \E noteID \in 1..2, title \in VersionTitles, content \in VersionContents,
          tags \in VersionTags : CallSaveNoteVersion(noteID, title, content, tags)
    \/ \E noteID \in 1..2, versionID \in 1..(Len(versions[1]) + 1) :
          CallRestoreVersion(noteID, versionID)
    \/ \E k \in DOMAIN notes[1], c \in Contents : CallUpdateNote(k, c)
    \/ \E k \in DOMAIN notes[1] : CallDeleteNote(k)
    \/ \E k \in DOMAIN notes[1] : CallPermanentlyDeleteSynced(k)

SpecVersions == InitVersions /\ [][NextVersions]_vars

\* C27: the versions of a note are numbered 1, 2, ... in the order they
\* were written: no two rows of a note share a number, and the numbers of a
\* note with n versions are exactly 1..n
VersionNumbersFromOne ==
    \A noteID \in 1..2 :
        LET mine == VersionsOf(versions[1], noteID)
        IN /\ \A j \in mine : \A k \in mine :
                 j < k => versions[1][j].versionNum < versions[1][k].versionNum
           /\ {versions[1][k].versionNum : k \in mine} = 1..Cardinality(mine)

\* C27 happens: both notes have versions, written in turn, and one of them
\* has two
VersionsOfTwoNotes ==
    /\ Len(versions[1]) >= 3
    /\ versions[1][1].noteID # versions[1][2].noteID
    /\ versions[1][3].noteID = versions[1][1].noteID

\* the version of the note that was written last (Null when it has none)
LastWritten(vs, noteID) ==
    IF VersionsOf(vs, noteID) = {} THEN Null
    ELSE vs[CHOOSE k \in VersionsOf(vs, noteID) :
                \A j \in VersionsOf(vs, noteID) : j <= k]

\* C28: SaveNoteVersion writes no row when the hash of the content is the
\* hash of the version of the note written last, and in every other case
\* appends one row that holds the content and its hash, also when an older
\* version of the note has that hash
SameHashAsLastWritesNothing ==
    [][\A noteID \in 1..2 : \A title \in VersionTitles :
          \A content \in VersionContents : \A tags \in VersionTags :
             CallSaveNoteVersion(noteID, title, content, tags)
             => LET last == LastWritten(versions[1], noteID)
                IN IF last # Null /\ last.hash = HashOf(content)
                   THEN versions' = versions
                   ELSE /\ Len(versions'[1]) = Len(versions[1]) + 1
                        /\ SubSeq(versions'[1], 1, Len(versions[1])) = versions[1]
                        /\ LastWritten(versions'[1], noteID).content = content
                        /\ LastWritten(versions'[1], noteID).hash = HashOf(content)
      ]_vars

\* C28 happens: a note has three versions, and the third has the hash of
\* the first and not of the second
OlderHashWrittenAgain ==
    /\ Len(versions[1]) = 3
    /\ \A k \in 1..3 : versions[1][k].noteID = 1
    /\ versions[1][3].hash = versions[1][1].hash
    /\ versions[1][3].hash # versions[1][2].hash

\* C29: RestoreNoteVersion of an existing version on an existing note leaves
\* the note with the title, content and tags of the version, pending and
\* stamped with the current second, changes nothing else of it and no other
\* note, and leaves note_versions as it was, whatever version is restored
RestoreCopiesVersionOnly ==
    [][\A noteID \in 1..2 : \A versionID \in 1..(Len(versions[1]) + 1) :
          CallRestoreVersion(noteID, versionID)
          => LET version == GetNoteVersion(versions[1], versionID)
                 old == RowOf(notes[1], noteID)
                 new == RowOf(notes'[1], noteID)
             IN /\ versions' = versions
                /\ Len(notes'[1]) = Len(notes[1])
                /\ \A k \in DOMAIN notes[1] :
                      notes[1][k].id # noteID => notes'[1][k] = notes[1][k]
                /\ (version = Null) => notes' = notes
                /\ (version # Null /\ old # Null)
                   => new = [old EXCEPT !.title = version.title,
                                        !.content = version.content,
                                        !.tags = version.tags,
                                        !.syncStatus = "pending",
                                        !.updatedAt = TimeUnix(Unix(now))]
      ]_vars

\* C29 happens: the older of the two versions of note 1 was restored, the
\* note holds its title and content and is pending, and both versions are
\* in the table
OlderVersionRestored ==
    /\ Len(versions[1]) = 2
    /\ versions[1][1].noteID = 1 /\ versions[1][2].noteID = 1
    /\ versions[1][1].title = "T"
    /\ versions[1][1].content # versions[1][2].content
    /\ RowOf(notes[1], 1) # Null
    /\ RowOf(notes[1], 1).title = "T"
    /\ RowOf(notes[1], 1).content = versions[1][1].content
    /\ RowOf(notes[1], 1).tags = versions[1][1].tags
    /\ RowOf(notes[1], 1).syncStatus = "pending"

\* C30: a save of a text that differs from the loaded body appends one row
\* for the note to note_versions, and every step leaves the rows that were
\* in note_versions as they were
AcceptedEditAppendsVersion ==
    [][/\ Len(versions'[1]) >= Len(versions[1])
       /\ SubSeq(versions'[1], 1, Len(versions[1])) = versions[1]
       /\ (/\ editor[1].mode = "editing"
           /\ events' = events + 1
           /\ editor[1].textarea # editor[1].currentNote.content)
          => /\ Len(versions'[1]) = Len(versions[1]) + 1
             /\ versions'[1][Len(versions'[1])].noteID = editor[1].currentNote.id
      ]_vars

(***************************************************************************)
(* Device 1 alone on a local store whose writes can fail: SetNoteSynced    *)
(* and PermanentlyDeleteSynced return an error and write nothing.  Sync    *)
(* does not read what they return.                                         *)
(***************************************************************************)
\* the second half of UploadLive when SetNoteSynced returns an error: the
\* row is as it was, the error is dropped, Uploaded++
MarkSyncedFailed(d, p) ==
    /\ p \in 1..Len(passes[d])
    /\ passes[d][p].mark # NoID
    /\ Event(1)
    /\ LET ps == passes[d][p]
           n == Len(ps.pending)
       IN passes' = [passes EXCEPT
                ![d][p] = [ps EXCEPT !.i = NextRow(ps.i, n, FALSE),
                                     !.uploaded = @ + 1, !.ran = @ + 1,
                                     !.last = "mark-err", !.mark = NoID]]
    /\ UNCHANGED <<now, notes, nextID, remote, nextUUID, lastSync, syncing,
                   tickCount, online, msgs, created, lost, quiet, reply, editor,
                   versions, auth, users, regs, requests, admitted>>

\* one turn of the upload loop for a tombstoned row when the remote delete,
\* if one is needed, is answered and PermanentlyDeleteSynced returns an
\* error: the row is as it was, the error is dropped, Deleted++
RemoveFailed(d, p) ==
    /\ p \in 1..Len(passes[d])
    /\ passes[d][p].i <= Len(passes[d][p].pending)
    /\ Event(1)
    /\ LET ps == passes[d][p]
           note == ps.pending[ps.i]
           n == Len(ps.pending)
       IN /\ note.deleted
          /\ remote' = IF NeedsRemoteDelete(note)
                       THEN ServerDeleteNote(remote, note.serverID, UserOf(d))
                       ELSE remote
          /\ passes' = [passes EXCEPT
                ![d][p] = [ps EXCEPT !.i = NextRow(ps.i, n, FALSE),
                                     !.deleted = @ + 1, !.ran = @ + 1,
                                     !.last = "remove-err"]]
    /\ AfterRequest(d)
    /\ UNCHANGED <<now, notes, nextID, nextUUID, lastSync, syncing, tickCount,
                   online, msgs, created, lost, reply, editor, versions, auth, users, regs, requests, admitted>>

NextDisk ==
    \/ \E ok \in BOOLEAN : Tick(1, ok)
    \/ HandleSyncResult(1)
    \/ CreateNote(1)
    \/ \E k \in DOMAIN notes[1] : DeleteCurrentNote(1, k)
    \/ \E p \in DOMAIN passes[1], out \in Outcomes : UploadDeleted(1, p, out)
    \/ \E p \in DOMAIN passes[1], out \in Outcomes : SendUpsert(1, p, out)
    \/ \E p \in DOMAIN passes[1] : MarkSynced(1, p)
    \/ \E p \in DOMAIN passes[1] : MarkSyncedFailed(1, p)
    \/ \E p \in DOMAIN passes[1] : RemoveFailed(1, p)
    \/ \E p \in DOMAIN passes[1], ok \in BOOLEAN : Download(1, p, ok)

InitDisk == InitOf({1}, MaxDiskEvents)

SpecDisk == InitDisk /\ [][NextDisk]_vars

\* C31: when a write of the local store fails in a turn of the upload loop
\* (SetNoteSynced, PermanentlyDeleteSynced), the pass records an error and
\* counts the row neither as uploaded nor as deleted
StoreErrorSurfaced ==
    [][\A p \in DOMAIN passes[1] :
          (/\ Len(passes'[1]) = Len(passes[1])
           /\ passes'[1][p].ran = passes[1][p].ran + 1
           /\ passes'[1][p].last \in {"mark-err", "remove-err"})
          => /\ passes'[1][p].errors = passes[1][p].errors + 1
             /\ passes'[1][p].uploaded = passes[1][p].uploaded
             /\ passes'[1][p].deleted = passes[1][p].deleted
      ]_vars

(***************************************************************************)
(* Device 1 alone while its token can stop being accepted (the JWT         *)
(* expires, the user is deactivated): authMiddleware then answers every    *)
(* request 401, which doRequest returns as an error, until the user logs   *)
(* in again.                                                               *)
(***************************************************************************)
\* the server stops accepting the token of device d
TokenExpires(d) ==
    /\ Event(1)
    /\ auth[d].valid
    /\ auth' = [auth EXCEPT ![d].valid = FALSE]
    /\ UNCHANGED <<users, regs, requests, admitted>>
    /\ UNCHANGED <<now, notes, nextID, remote, nextUUID, lastSync, syncing,
                   tickCount, online, passes, msgs, created, lost, quiet, reply,
                   editor, versions>>

\* Client.Login answered 200: the Client holds a token the server accepts
Login(d) ==
    /\ Event(1)
    /\ ~auth[d].valid
    /\ auth' = [auth EXCEPT ![d] = SignedIn]
    /\ UNCHANGED <<users, regs, requests, admitted>>
    /\ UNCHANGED <<now, notes, nextID, remote, nextUUID, lastSync, syncing,
                   tickCount, online, passes, msgs, created, lost, quiet, reply,
                   editor, versions>>

\* one turn of the upload loop for a live row whose POST /api/notes is
\* answered 401: an item error, and the loop goes on; the token is kept
CallRefused(d, p) ==
    /\ p \in 1..Len(passes[d])
    /\ passes[d][p].i <= Len(passes[d][p].pending)
    /\ ~auth[d].valid
    /\ Event(1)
    /\ LET ps == passes[d][p]
           note == ps.pending[ps.i]
           n == Len(ps.pending)
       IN /\ ~note.deleted
          /\ notes' = [notes EXCEPT ![d] = AfterItemError(@, note)]
          /\ passes' = [passes EXCEPT
                ![d][p] = [ps EXCEPT !.i = NextRow(ps.i, n, TRUE),
                                     !.errors = @ + 1, !.ran = @ + 1,
                                     !.last = "upsert-err"]]
    /\ auth' = [auth EXCEPT ![d].refused = TRUE]
    /\ UNCHANGED <<users, regs, requests, admitted>>
    /\ UNCHANGED <<now, nextID, remote, nextUUID, lastSync, syncing, tickCount,
                   online, msgs, created, lost, quiet, reply, editor, versions>>

\* the download phase when GET /api/notes/sync is answered 401: the error
\* goes to result.Errors and Sync returns; the token is kept
FetchRefused(d, p) ==
    /\ p \in 1..Len(passes[d])
    /\ passes[d][p].i > Len(passes[d][p].pending)
    /\ ~auth[d].valid
    /\ Event(1)
    /\ passes' = [passes EXCEPT ![d] = RemoveAt(@, p)]
    /\ LET ps == passes[d][p]
       IN msgs' = [msgs EXCEPT ![d] = Append(@,
                      SyncResultMsg(SyncSuccess(ps.errors, 1), ps.uploaded, 0,
                                    "fail", ps.errors, ps.ran, Len(ps.pending)))]
    /\ auth' = [auth EXCEPT ![d].refused = TRUE]
    /\ UNCHANGED <<users, regs, requests, admitted>>
    /\ UNCHANGED <<now, notes, nextID, remote, nextUUID, lastSync, syncing,
                   tickCount, online, created, lost, quiet, reply, editor,
                   versions>>

NextAuth ==
    \/ TokenExpires(1)
    \/ Login(1)
    \/ auth[1].token /\ Tick(1, TRUE)
    \/ HandleSyncResult(1)
    \/ CreateNote(1)
    \/ \E p \in DOMAIN passes[1] : auth[1].valid /\ UploadLive(1, p, "ok")
    \/ \E p \in DOMAIN passes[1] : auth[1].valid /\ Download(1, p, TRUE)
    \/ \E p \in DOMAIN passes[1] : CallRefused(1, p)
    \/ \E p \in DOMAIN passes[1] : FetchRefused(1, p)

InitAuth == InitOf({1}, MaxAuthEvents)

SpecAuth == InitAuth /\ [][NextAuth]_vars

\* C32: once a request of the device was answered 401, no trigger starts a
\* pass until a login has succeeded
NoPassAfterRefusal ==
    [][auth[1].refused => Len(passes'[1]) <= Len(passes[1])]_vars

\* C33: a GET, a DELETE or an upsert with a title on an id that does not
\* exist or belongs to another user is answered 404 and leaves the notes
\* table as it was
MissingIdAnswered404 ==
    [][LET \* no row of the notes table has this id and this owner
           NoSuchNote(u, id) == ~\E r \in remote : r.id = id /\ r.userID = u
       IN \A u \in Users : \A id \in 1..nextUUID :
          (/\ NoSuchNote(u, id)
           /\ \/ GetCall(u, id)
              \/ DeleteCall(u, id)
              \/ \E content \in Contents : \E reqUnix \in 0..MaxSec :
                    UpsertCall(u, id, "A", content, reqUnix))
          => reply'.status = 404 /\ remote' = remote
      ]_vars

\* C33 as the handlers answer: on such an id a GET is answered 404 and a
\* DELETE 204, both leaving the notes table as it was; an upsert with a title
\* is answered 200, and it leaves the table as it was when another user owns
\* the id and inserts the row under that id for the caller when nobody does
MissingIdAnswers ==
    [][LET \* no row of the notes table has this id and this owner
           NoSuchNote(u, id) == ~\E r \in remote : r.id = id /\ r.userID = u
       IN \A u \in Users : \A id \in 1..nextUUID : NoSuchNote(u, id) =>
          /\ GetCall(u, id) => reply'.status = 404 /\ remote' = remote
          /\ DeleteCall(u, id) => reply'.status = 204 /\ remote' = remote
          /\ \A content \in Contents : \A reqUnix \in 0..MaxSec :
                UpsertCall(u, id, "A", content, reqUnix) =>
                   /\ reply'.status = 200
                   /\ IF \E r \in remote : r.id = id
                      THEN remote' = remote
                      ELSE /\ \E r \in remote' :
                                 r.id = id /\ r.userID = u /\ remote' = remote \cup {r}
                           /\ remote' # remote
      ]_vars

\* C33 happens: a GET on the id of another user's row was answered 404
ForeignGetAnswered ==
    /\ reply.call = "get"
    /\ reply.status = 404
    /\ \E r \in remote : r.id = reply.id /\ r.userID # reply.user

(***************************************************************************)
(* POST /api/auth/register.  Every request runs registerHandler in its own *)
(* goroutine; the two statements it sends to the users table, the SELECT   *)
(* of GetUserByUsername and the INSERT of CreateUser, are separate steps   *)
(* between which the handlers of other requests run.                       *)
(***************************************************************************)
Usernames == {"u1", "u2"}

\* len(req.Password) of the requests
PasswordLens == {0, 7, 8}

\* SELECT ... FROM users WHERE username = ?  (the rows found)
GetUserByUsername(us, username) == {u \in us : u.username = username}

\* INSERT INTO users (username, ...): the table after the statement; the
\* UNIQUE constraint on username makes it fail when a row has the name
CreateUser(us, username) ==
    IF \E u \in us : u.username = username
    THEN us
    ELSE us \cup {[id |-> Cardinality(us) + 1, username |-> username]}

\* registerHandler up to the check of GetUserByUsername
RegisterCheck(r, username, passwordLen) ==
    /\ regs[r].pc = "idle"
    /\ regs' = [regs EXCEPT ![r] =
          IF username = "" \/ passwordLen = 0 \/ passwordLen < MinPasswordLen
          THEN [username |-> username, pc |-> "done", status |-> 400]
          ELSE IF GetUserByUsername(users, username) # {}
          THEN [username |-> username, pc |-> "done", status |-> 409]
          ELSE [username |-> username, pc |-> "checked", status |-> 0]]
    /\ UNCHANGED <<now, notes, nextID, remote, nextUUID, lastSync, syncing,
                   tickCount, online, passes, msgs, events, budget, created,
                   lost, quiet, reply, editor, versions, auth, users, requests,
                   admitted>>

\* registerHandler from CreateUser on: 500 when the INSERT fails, else 201
RegisterCreate(r) ==
    /\ regs[r].pc = "checked"
    /\ users' = CreateUser(users, regs[r].username)
    /\ regs' = [regs EXCEPT ![r].pc = "done",
                            ![r].status = IF users' = users THEN 500 ELSE 201]
    /\ UNCHANGED <<now, notes, nextID, remote, nextUUID, lastSync, syncing,
                   tickCount, online, passes, msgs, events, budget, created,
                   lost, quiet, reply, editor, versions, auth, requests,
                   admitted>>

NextRegister ==
    \/ \E r \in Registrations, username \in Usernames \cup {""},
          passwordLen \in PasswordLens : RegisterCheck(r, username, passwordLen)
    \/ \E r \in Registrations : RegisterCreate(r)

SpecRegister == InitServer /\ [][NextRegister]_vars

\* C34: usernames stay unique, and of the answered registrations of one
\* username that passed validation exactly one was answered 201 and created
\* the user while every other one was answered 409
OneRegistrationWins ==
    LET \* the registrations of a username answered with this status
        Answered(username, status) ==
            {r \in Registrations : /\ regs[r].pc = "done"
                                   /\ regs[r].username = username
                                   /\ regs[r].status = status}
    IN
    /\ \A a \in users : \A b \in users : a.username = b.username => a = b
    /\ \A username \in Usernames :
          /\ Cardinality(Answered(username, 201))
                = Cardinality(GetUserByUsername(users, username))
          /\ Cardinality(Answered(username, 201)) <= 1
          /\ \A r \in Registrations :
                (/\ regs[r].pc = "done"
                 /\ regs[r].username = username
                 /\ regs[r].status # 400)
                => regs[r].status \in {201, 409}

\* C35: when the upload loop of a pass is over, Uploaded + Deleted + the
\* item errors is the size of its snapshot; a turn that counts a row as
\* uploaded leaves it with a server id that the remote store holds, and a
\* turn that counts a row as deleted removes that tombstone from the local
\* table
ResultCountsRows ==
    [][LET \* this step is one turn of the upload loop of pass p of device d
           LoopTurn(d, p) == /\ Len(passes'[d]) = Len(passes[d])
                             /\ passes'[d][p].ran = passes[d][p].ran + 1
       IN \A d \in Dev : \A p \in DOMAIN passes[d] :
          LET ps == passes[d][p]
          IN /\ ps.i > Len(ps.pending)
                => ps.uploaded + ps.deleted + ps.errors = Len(ps.pending)
             /\ (LoopTurn(d, p) /\ passes'[d][p].uploaded = ps.uploaded + 1)
                => /\ passes'[d][p].deleted = ps.deleted
                   /\ passes'[d][p].errors = ps.errors
                   /\ ~ps.pending[ps.i].deleted
                   /\ \E r \in remote' :
                         \A k \in DOMAIN notes'[d] :
                            notes'[d][k].id = ps.pending[ps.i].id
                            => notes'[d][k].serverID = r.id
             /\ (LoopTurn(d, p) /\ passes'[d][p].deleted = ps.deleted + 1)
                => /\ passes'[d][p].uploaded = ps.uploaded
                   /\ passes'[d][p].errors = ps.errors
                   /\ \E k \in DOMAIN notes[d] :
                         /\ notes[d][k].id = ps.pending[ps.i].id
                         /\ notes[d][k].deleted
                   /\ \A k \in DOMAIN notes'[d] :
                         notes'[d][k].id # ps.pending[ps.i].id
      ]_vars

\* C36: an edit that lands while a pass is in flight is not marked synced
\* without having been uploaded: a live row of device 1 in state synced
\* holds the title and content of the remote row its server id names
SyncedRowWasUploaded ==
    \A k \in DOMAIN notes[1] :
       (/\ notes[1][k].syncStatus = "synced"
        /\ ~notes[1][k].deleted)
       => \E r \in remote : /\ r.id = notes[1][k].serverID
                            /\ r.title = notes[1][k].title
                            /\ r.content = notes[1][k].content

\* C37: every tombstone is pending: no local row is both deleted and synced
TombstonesArePending ==
    \A d \in Dev : \A k \in DOMAIN notes[d] :
       notes[d][k].deleted => notes[d][k].syncStatus = "pending"

\* C38: a remote row that a pass removed is not re-created: once no remote
\* row has a server id that was given out, no upload of a device that still
\* holds the note brings a row with that id back
RemovedStaysRemoved ==
    [][\A id \in 1..nextUUID :
          (\A r \in remote : r.id # id) => (\A r \in remote' : r.id # id)
      ]_vars

\* C38 as the code has it: a removed remote row comes back only by the
\* upload of a pending live row that carries its server id, with the fields
\* of that row; no other step brings it back
RemovedReturnsByUploadOnly ==
    [][LET \* this step is one turn of the upload loop of pass p of device d
           LoopTurn(d, p) == /\ Len(passes'[d]) = Len(passes[d])
                             /\ passes'[d][p].ran = passes[d][p].ran + 1
       IN \A id \in 1..nextUUID :
          (/\ \A r \in remote : r.id # id
           /\ \E r \in remote' : r.id = id)
          => \E d \in Dev : \E p \in DOMAIN passes[d] :
                LET note == passes[d][p].pending[passes[d][p].i]
                IN /\ passes[d][p].i <= Len(passes[d][p].pending)
                   /\ LoopTurn(d, p)
                   /\ note.serverID = id
                   /\ IsPending(note)
                   /\ ~note.deleted
                   /\ \E r \in remote' : /\ r.id = id
                                         /\ r.userID = UserOf(d)
                                         /\ r.title = note.title
                                         /\ r.content = note.content
      ]_vars

\* C38 happens: a device's pass removed the remote row of the shared note
\* and hard-removed its own copy, and the remote store holds a row with
\* that server id again
RemovedNoteIsBack ==
    /\ \E d \in Dev : notes[d] = <<>>
    /\ \E d \in Dev : /\ notes[d] # <<>>
                       /\ \A k \in DOMAIN notes[d] : notes[d][k].serverID = nextUUID
    /\ \E r \in remote : r.id = nextUUID

\* C39: a saveCurrentNote that wrote the note leaves the Model not dirty, so
\* that the next tick in edit mode without a keystroke does not call
\* UpdateNote again
SaveClearsDirty ==
    [][\A d \in Dev :
          (/\ editor[d].mode = "editing"
           /\ editor'[d].nonces = editor[d].nonces + 1
           /\ notes'[d] = UpdateNote(notes[d], editor[d].currentNote.id,
                                     editor[d].currentNote.title,
                                     SavedContent(editor[d]),
                                     editor[d].currentNote.tags, now))
          => ~editor'[d].dirty
      ]_vars

(***************************************************************************)
(* RateLimiter (internal/server/server.go), the limiter of the auth        *)
(* routes.  Allow and the body of cleanupLoop run under rl.mu, so each is  *)
(* one step; the ticker of cleanupLoop can fire between any two calls.     *)
(***************************************************************************)
\* rl.requests[ip] = &clientRequests{...}
Put(reqs, ip, req) ==
    [k \in DOMAIN reqs \cup {ip} |-> IF k = ip THEN req ELSE reqs[k]]

\* variant of Allow that admits a call while count is at the limit
AllowAtLimit(reqs, ip, t) ==
    IF ip \notin DOMAIN reqs \/ After(t, reqs[ip].windowEnd)
    THEN [requests |-> Put(reqs, ip, [count |-> 1, windowEnd |-> t + Window]),
          ok |-> TRUE]
    ELSE IF reqs[ip].count > AuthLimit
    THEN [requests |-> reqs, ok |-> FALSE]
    ELSE [requests |-> Put(reqs, ip, [reqs[ip] EXCEPT !.count = @ + 1]),
          ok |-> TRUE]

\* RateLimiter.Allow at time t: the map it leaves and what it returns
Allow(reqs, ip, t) ==
    IF ip \notin DOMAIN reqs \/ After(t, reqs[ip].windowEnd)
    THEN [requests |-> Put(reqs, ip, [count |-> 1, windowEnd |-> t + Window]),
          ok |-> TRUE]
    ELSE IF reqs[ip].count >= AuthLimit
    THEN [requests |-> reqs, ok |-> FALSE]
    ELSE [requests |-> Put(reqs, ip, [reqs[ip] EXCEPT !.count = @ + 1]),
          ok |-> TRUE]

\* a request of client ip reaches Middleware
AllowCall(ip) ==
    /\ requests' = Allow(requests, ip, now).requests
    /\ admitted' = IF Allow(requests, ip, now).ok
                   THEN [admitted EXCEPT ![ip] = Append(@, now)]
                   ELSE admitted
    /\ UNCHANGED <<now, notes, nextID, remote, nextUUID, lastSync, syncing,
                   tickCount, online, passes, msgs, events, budget, created,
                   lost, quiet, reply, editor, versions, auth, users, regs>>

\* the ticker of cleanupLoop fires: every entry whose window is over goes
cleanupLoop ==
    /\ requests' = [ip \in {k \in DOMAIN requests : ~After(now, requests[k].windowEnd)}
                      |-> requests[ip]]
    /\ UNCHANGED <<now, notes, nextID, remote, nextUUID, lastSync, syncing,
                   tickCount, online, passes, msgs, events, budget, created,
                   lost, quiet, reply, editor, versions, auth, users, regs,
                   admitted>>

\* time.Now() moves on, up to the first tick after the window that was
\* opened at the start
Elapse(dt) ==
    /\ now + dt <= SubSec + Window + 1
    /\ now' = now + dt
    /\ UNCHANGED <<notes, nextID, remote, nextUUID, lastSync, syncing,
                   tickCount, online, passes, msgs, events, budget, created,
                   lost, quiet, reply, editor, versions, auth, users, regs,
                   requests, admitted>>

NextLimiter ==
    \/ \E dt \in {1, Window} : Elapse(dt)
    \/ \E ip \in ClientIPs : AllowCall(ip)
    \/ cleanupLoop

SpecLimiter == InitServer /\ [][NextLimiter]_vars

\* C40: for each key, no more than limit calls are admitted within any
\* interval of one window length
AtMostLimitPerInterval ==
    LET \* the calls of ip admitted in the interval of one window length
        \* from t on
        AdmittedFrom(ip, t) ==
            {i \in DOMAIN admitted[ip] :
                admitted[ip][i] >= t /\ admitted[ip][i] < t + Window}
    IN
    \A ip \in ClientIPs : \A i \in DOMAIN admitted[ip] :
       Cardinality(AdmittedFrom(ip, admitted[ip][i])) <= AuthLimit

\* C40 as the code has it: the calls admitted since a key's window was
\* opened are counted by its entry and are at most limit, and within any
\* interval of one window length at most twice limit calls are admitted
AtMostLimitPerWindow ==
    LET \* the calls of ip admitted in the interval of one window length
        \* from t on
        AdmittedFrom(ip, t) ==
            {i \in DOMAIN admitted[ip] :
                admitted[ip][i] >= t /\ admitted[ip][i] < t + Window}
    IN
    /\ \A ip \in DOMAIN requests :
          /\ requests[ip].count <= AuthLimit
          /\ requests[ip].count =
                Cardinality({i \in DOMAIN admitted[ip] :
                                admitted[ip][i] >= requests[ip].windowEnd - Window})
    /\ \A ip \in ClientIPs : \A i \in DOMAIN admitted[ip] :
          Cardinality(AdmittedFrom(ip, admitted[ip][i])) <= AuthLimit + AuthLimit

\* C40 happens: after earlier admitted calls a key's window is full
WindowFullAgain ==
    \E ip \in DOMAIN requests :
       /\ requests[ip].count = AuthLimit
       /\ Len(admitted[ip]) > AuthLimit
====
